---- MODULE Spec2Model ----
(***************************************************************************)
(* Model of the buy-alert bot: the block scanner of blockchain_listener.py *)
(* (listen_for_swaps, check_block_for_swaps, _is_token_buy,                *)
(* _process_buy_event), the alert handler of telegram_bot.py               *)
(* (send_buy_alert) and the dedup table of database.py.                    *)
(*                                                                         *)
(* The chain client, the market-data provider and the wallet provider are  *)
(* the environment: every answer they give (a height, a block, a receipt,  *)
(* a log, a token record, a failure) is drawn when the code asks for it.   *)
(*                                                                         *)
(* The specifications share the definitions:                               *)
(*   Spec          the scanning loop; the callback is a hand-off that      *)
(*                 always returns (send_buy_alert catches everything it    *)
(*                 raises) and touches nothing the loop reads              *)
(*   SpecFair      Spec with the loop scheduled (the event loop runs it)   *)
(*   SpecAlert     send_buy_alert and the dedup table, fed with events     *)
(*   SpecClassify  _is_token_buy and _process_buy_event on one decoded log *)
(*   SpecHandOff   the logs of a receipt handed to send_buy_alert          *)
(*   SpecHeartbeat listen_for_swaps against the wall clock                 *)
(*   SpecRegistry  initialize_pairs and update_monitored_tokens            *)
(*   SpecAdmin     /addtoken and /removetoken next to the running scanner  *)
(*   SpecPrice     store_token_price on the price table                    *)
(*   SpecPattern   detect_pump_dump on a price table                       *)
(*   SpecDetect    detect_accumulation and detect_patterns on a price      *)
(*                 table and a run of Buy events                           *)
(*   SpecRatios    detect_pump_dump on the rows it is given                *)
(*   SpecDedup     two invocations of send_buy_alert on one database file  *)
(*   SpecScanUpdate the scan's pair lookup beside update_monitored_tokens  *)
(*   SpecFilter    the router and registry filters of the scan             *)
(*   SpecScanErrors the scan with the end of every log kept                *)
(*   SpecOutbound  the scan and its call of the market-data provider       *)
(*   SpecGroups    the send loop of send_buy_alert beside /register and    *)
(*                 /unregister                                             *)
(***************************************************************************)
EXTENDS Integers, Sequences, FiniteSets

\* ---- bounds of the model ------------------------------------------------
MaxHeight == 2      \* chain heights are 0..MaxHeight
MaxTxs    == 2      \* transactions per block
MaxLogs   == 2      \* log entries per receipt
MaxAmount == 2      \* raw swap amounts are 0..MaxAmount
MaxRuns   == 2      \* process runs in SpecAlert (one restart)
MaxMarked == 2      \* tx hashes marked before SpecAlert stops taking new ones
StepsPerInterval == 3   \* clock steps that make up one heartbeat interval
MaxIntervals == 2   \* the clock runs for this many heartbeat intervals
MaxTokens == 3      \* length of a token list given to the pair registry
MaxPriceClock == 2  \* seconds the clock of the price table runs for
MaxPoints == 3      \* rows of the price table found at start in SpecPattern
MaxPrice  == 4      \* prices are 0..MaxPrice, in units of 0.5 USD
MaxVolume == 10     \* volumes are 0..MaxVolume, in units of 50 USD
MaxBuys   == 5      \* Buy events inside the accumulation window
MaxRatioPrice  == 2 \* prices of a series given to detect_pump_dump: 0..MaxRatioPrice
MaxRatioVolume == 2 \* its volumes: 0..MaxRatioVolume

Heights  == 0..MaxHeight
TxHashes == Heights \X (1..MaxTxs)
Amounts  == 0..MaxAmount

\* ---- the environment's vocabulary ---------------------------------------
\* Pair contracts on chain. In a Uniswap V2 pair token0 is the lower address,
\* so which side holds WETH is a property of the pair, not of the listener.
PairAddresses == {"pairA", "pairB"}
LogAddresses  == PairAddresses \cup {"other"}
WethIsToken0(pair) == pair = "pairA"
TokenOf(pair) == IF pair = "pairA" THEN "tokenA" ELSE "tokenB"

\* Token addresses as the callers write them: "TOKENA" is the mixed-case
\* (checksum) spelling of "tokenA", "" is an empty entry of the list.  The
\* pair contracts of the scanner are those of tokenA and tokenB; tokenC is a
\* third token the registry can be asked for.
RawAddresses == {"", "TOKENA", "tokenB", "tokenC"}
Tokens == {"tokenA", "tokenB", "tokenC"}
\* str.lower()
Lower(addr) == IF addr = "TOKENA" THEN "tokenA" ELSE addr
\* the pair the factory holds for a token, already lowercased (line 75)
PairFor(token) ==
    IF token = "tokenA" THEN "pairA"
    ELSE IF token = "tokenB" THEN "pairB"
    ELSE "pairC"
\* the chain's answers to the calls of initialize_pairs for one token: getPair
\* raises, getPair returns the zero address, name/symbol/decimals raises, or
\* all four calls answer
LookupAnswers == {"raise", "zero", "no_metadata", "ok"}
Range(f) == {f[i] : i \in DOMAIN f}

EventArgs == [amount0In : Amounts, amount1In : Amounts,
              amount0Out : Amounts, amount1Out : Amounts]
\* a receipt's log: its emitting address, whether it decodes as a Swap of
\* the pair ABI, and the decoded amounts (zero or positive on each field)
Logs == [address : LogAddresses, decodable : BOOLEAN,
         args : {a \in EventArgs : \A f \in DOMAIN a : a[f] <= 1}]

\* what DexData.get_token_info can return: None (found = FALSE), or a record
\* in which 'price_usd' and 'market_cap' hold a value or None (the pair's
\* priceUsd / marketCap may be absent from the provider's answer)
TokenInfos == {r \in [found : BOOLEAN, price_usd : BOOLEAN, market_cap : BOOLEAN] :
                  ~r.found => (~r.price_usd /\ ~r.market_cap)}
\* what WalletAnalyzer.get_wallet_info / DexData.get_eth_price can return:
\* a value (TRUE) or None (FALSE)
Lookups == BOOLEAN

VARIABLES
    \* BlockchainListener
    pc,             \* position of listen_for_swaps
    running,        \* self.running
    pairs,          \* self.pairs (registered pair addresses)
    last_block,     \* local last_block
    current_block,  \* local current_block of the tick
    block_number,   \* loop variable of the tick's range
    ntx, txi,       \* len(block['transactions']), index of the current tx
    nlogs, logi,    \* len(receipt['logs']), index of the current log
    \* Database / TelegramBot
    processed,      \* table processed_transactions
    alerts,         \* per tx_hash: alerts that reached the send loop
    \* observation of the run
    run,            \* number of the process run (SpecAlert)
    start_height,   \* height read when listen_for_swaps started
    stop_called,    \* stop() was called in this run
    status,         \* per height: outcome of its latest scan
    fetchCount,     \* per height: get_block calls (saturating at 2)
    lastEmitted,    \* <<block, tx index, log index>> of the latest callback
    emitCount,      \* callbacks with a Buy event (see EmitStep)
    lastAlert,      \* outcome of the latest send_buy_alert
    \* the classifier taken alone
    cpc, event_args, pair_address, is_buy, buy_event,
    \* one receipt handed to the alert handler
    receiptBuys,    \* logs of the current receipt that were classified Buy
    \* heartbeat
    now,            \* datetime.now(), in seconds since the listener was built
    last_heartbeat, \* self.last_heartbeat
    periodicAt,     \* time of the latest heartbeat of line 116 (-1: none yet)
    prevPeriodicAt, \* time of the one before it (-1: none)
    last_hb_event,  \* the latest heartbeat event handed to the callback
    hb_handled,     \* how send_buy_alert ended on the latest heartbeat
    \* pair registry
    token_addresses, \* self.token_addresses, as far as the loop of line 56 has come
    lookups,        \* per entry of token_addresses: what the chain answered
    reg_pc,         \* "ready", or the caller whose initialize_pairs is running
    reg_n,          \* length of the list the latest caller passed
    reg_arg,        \* the entries of that list read so far
    reg_caller,     \* the latest caller: "init" or "update"
    \* admin commands
    monitored_tokens, \* table monitored_tokens: the token_address keys, as written
    admin_reply,    \* the reply of the latest /addtoken or /removetoken
    emitted_for,    \* token of the Buy event the scanner handed off last
    \* price history and pattern detection
    token_price_history, \* table token_price_history: a set of rows
    price_now,      \* int(datetime.now().timestamp()), in seconds
    last_store,     \* the latest store_token_price call: its row and result
    same_key_writes, \* calls in a row for one (token_address, timestamp), up to 2
    detected,       \* what the latest detect_pump_dump returned
    detect_token,   \* the token it was asked about; "none" before any call
    \* the detectors on their inputs
    window_buys,    \* the Buy events of tokenA inside the accumulation window
    detect_call,    \* the detector function called last; "none" before any call
    accumulated,    \* what the latest detect_accumulation returned
    patterns,       \* what the latest detect_patterns returned
    ratios,         \* the ratios lines 62-69 computed on the latest series
    \* two invocations of send_buy_alert on one database file
    handler_pc,     \* per invocation: its position in send_buy_alert
    handler_tx,     \* per invocation: buy_event['tx_hash']
    handler_insert, \* per invocation: what mark_transaction_processed returned
    \* the scan's pair lookup next to update_monitored_tokens
    old_pairs,      \* self.pairs when the latest update_monitored_tokens began
    seen_pairs,     \* self.pairs as the latest lookup of the scan found it
    seen_during,    \* that lookup fell between line 92 and the return of line 93
    \* the filters of check_block_for_swaps on one transaction
    fpc,            \* "tx": at line 162; "log": inside the loop of line 169
    tx_to,          \* tx['to'] of the transaction of line 162
    logs_left,      \* logs of its receipt not yet examined
    log_address,    \* log['address'] of the log examined last
    emitted,        \* the BuyEvent that log gave the callback, if any
    \* the scan and the errors of one log
    log_result,     \* how lines 171-193 ended on the log examined last
    \* detect_pump_dump on a series
    series_rows,    \* price_history of line 30: the rows got from the store
    \* the scan and its call of the market-data provider
    outbound,       \* "pending" while the requests.get of dex_data.py line 17 is out
    \* the send loop of send_buy_alert and the table of groups
    registered_groups, \* table registered_groups: its chat_id keys
    send_pc,        \* "idle", or "sending" inside the loop of line 147
    to_send,        \* chat ids of the list of line 146 the loop has not reached
    attempted,      \* chat ids send_message was called for, for the latest alert
    send_failed,    \* those of them for which send_message raised
    dispatch_groups, \* the table as it was when line 146 ran for the latest alert
    groups_read     \* how the SELECT of line 146 ended: "none" before any alert

listenerVars == <<pc, running, pairs, last_block, current_block, block_number,
                  ntx, txi, nlogs, logi>>
botVars      == <<processed, alerts>>
obsVars      == <<run, start_height, stop_called, status, fetchCount,
                  lastEmitted, emitCount, lastAlert>>
classVars    == <<cpc, event_args, pair_address, is_buy, buy_event>>
handVars     == <<receiptBuys>>
hbVars       == <<now, last_heartbeat, periodicAt, prevPeriodicAt, last_hb_event,
                  hb_handled>>
regVars      == <<token_addresses, lookups, reg_pc, reg_n, reg_arg, reg_caller>>
adminVars    == <<monitored_tokens, admin_reply, emitted_for>>
priceVars    == <<token_price_history, price_now, last_store, same_key_writes,
                  detected, detect_token>>
detVars      == <<window_buys, detect_call, accumulated, patterns, ratios>>
\* the groups that the actions of the scanner, the handler, the registry, the
\* admin commands and the price table never touch
dedupVars    == <<handler_pc, handler_tx, handler_insert>>
lookVars     == <<old_pairs, seen_pairs, seen_during>>
filterVars   == <<fpc, tx_to, logs_left, log_address, emitted>>
errVars      == <<log_result>>
seriesVars   == <<series_rows>>
callVars     == <<outbound>>
groupVars    == <<registered_groups, send_pc, to_send, attempted, send_failed,
                 dispatch_groups, groups_read>>
laterVars    == <<detVars, dedupVars, lookVars, filterVars, errVars, seriesVars,
                 callVars, groupVars>>
extVars      == <<handVars, hbVars, regVars, adminVars, priceVars, laterVars>>
vars         == <<listenerVars, botVars, obsVars, classVars, extVars>>

\* chain order of <<block, transaction index, log index>>
LexLess(a, b) ==
    \/ a[1] < b[1]
    \/ a[1] = b[1] /\ a[2] < b[2]
    \/ a[1] = b[1] /\ a[2] = b[2] /\ a[3] < b[3]

Sat2(n) == IF n >= 2 THEN 2 ELSE n
\* emitCount: 0 none, 1 one, then 2 and 3 in turn (two or more)
EmitStep(n) == IF n = 3 THEN 2 ELSE n + 1

\* ---- blockchain_listener.py: pure parts ---------------------------------

\* variant: >= for > in the first test
IsTokenBuyLoose(args, token_address) ==
    IF args.amount0In >= 0 /\ args.amount1Out > 0 THEN TRUE
    ELSE IF args.amount1In > 0 /\ args.amount0Out > 0 THEN TRUE
    ELSE FALSE

\* _is_token_buy: token_address is accepted and never read
_is_token_buy(args, token_address) ==
    IF args.amount0In > 0 /\ args.amount1Out > 0 THEN TRUE
    ELSE IF args.amount1In > 0 /\ args.amount0Out > 0 THEN TRUE
    ELSE FALSE

\* _process_buy_event, lines 226-236: the raw amounts the event reports
\* (eth_amount is raw / 10**18, token_amount is raw / 10**token_decimals)
BuyAmounts(args) ==
    IF args.amount0In > 0 /\ args.amount1Out > 0
    THEN [eth_raw |-> args.amount0In, token_raw |-> args.amount1Out]
    ELSE IF args.amount1In > 0 /\ args.amount0Out > 0
    THEN [eth_raw |-> args.amount1In, token_raw |-> args.amount0Out]
    ELSE [eth_raw |-> 0, token_raw |-> 0]

\* _process_buy_event, lines 238-274: is the callback reached?  main.py builds
\* the listener without db and pattern_detector (both None).  hasattr() is
\* true for an attribute that holds None, so a record with a price makes
\* self.db.store_token_price raise AttributeError, which line 273 swallows.
ListenerDbSupplied == FALSE
CallbackReached(token_info) ==
    IF token_info.found /\ token_info.price_usd /\ ~ListenerDbSupplied
    THEN FALSE ELSE TRUE

\* ---- listen_for_swaps: the expressions of the loop ----------------------
\* line 99: the high-water mark the loop starts from
\* variant: the loop starts from genesis instead of the current height
InitialLastBlockGenesis(h) == 0
InitialLastBlock(h) == h
\* variant: while True
LoopContinuesAlways(flag) == TRUE
\* line 107: while self.running
LoopContinues(flag) == flag
\* ---- the pair registry ----------------------------------------------------
\* lines 34 and 91, one entry of [addr.lower() for addr in token_addresses
\* if addr]: an empty entry is dropped, any other is lowercased
LowerEntry(addr) == IF addr = "" THEN <<>> ELSE <<Lower(addr)>>
\* variant: update_monitored_tokens without line 92
KeptPairs(old) == old
\* lines 38 and 92: self.pairs = {}
ClearedPairs(old) == {}
\* lines 57-85, one token: the entry is stored only when getPair answers a
\* non-zero address and the three metadata reads answer
PairsAfterLookup(old, token, answer) ==
    IF answer = "ok" THEN old \cup {PairFor(token)} ELSE old
\* variant: the try statement around the for loop, not inside it
LoopEndsOnError(answer) == answer \notin {"raise", "no_metadata"}
\* lines 56-57 and 84-85: the except clause is inside the loop, so the loop
\* goes on with the next token whatever the answer was
LoopGoesOn(answer) == TRUE

\* line 48
heartbeat_interval == 60 * 30
\* variant: > for >= in line 115
HeartbeatDueLate(time_diff) == time_diff > heartbeat_interval
\* line 115
HeartbeatDue(time_diff) == time_diff >= heartbeat_interval
\* _send_heartbeat, lines 139-143: the keys of the event
HeartbeatEventKeys == {"is_heartbeat", "message", "timestamp"}
\* lines 133-148: the event built at time t; the callback's exceptions end
\* at line 147
HeartbeatEvent(message, t) ==
    [keys |-> HeartbeatEventKeys, message |-> message, timestamp |-> t]
\* variant: line 119 as "if current_block != last_block"
TickHasNewBlocksOnChange(current, last) == current # last
\* line 119
TickHasNewBlocks(current, last) == current > last
\* variant: range(last_block, current_block + 1)
FirstBlockOfTickOffByOne(last) == last
\* line 122: range(last_block + 1, current_block + 1)
FirstBlockOfTick(last) == last + 1
LastBlockOfTick(current) == current
\* line 125
AdvancedLastBlock(current, last) == current

\* variant: the BlockNotFound handler re-raises
ErrorPropagatesMissing(kind) == kind = "BlockNotFound"
\* check_block_for_swaps, lines 194-197: both handlers print and return, so
\* no error of a block scan reaches the loop
ErrorPropagates(kind) == FALSE

\* ---- telegram_bot.py: send_buy_alert -------------------------------------
\* lines 66-69 and 126-127: the alert reaches the send loop iff the token
\* record exists and its market_cap formats (a None market_cap raises
\* TypeError in the f-string, which the handler's outer except logs).  A
\* missing ETH price (lines 72-74) or wallet record (lines 80-89) is replaced
\* by defaults and stops nothing.
AlertSent(token_info, eth_found, wallet_found) ==
    token_info.found /\ token_info.market_cap

\* lines 57-60 and 159-160 on an event with these keys: line 59 reads
\* buy_event['tx_hash'] before anything else, and no line of the handler reads
\* 'is_heartbeat'.  A missing key raises KeyError, which line 159 catches and
\* logs with logger.error.
HandlerEnd(keys) == IF "tx_hash" \in keys THEN "ok" ELSE "error"

\* database.py, is_transaction_processed
is_transaction_processed(tx) == tx \in processed

\* send_buy_alert for a Buy event, run to its end
SendBuyAlert(tx, token_info, eth_found, wallet_found) ==
    IF is_transaction_processed(tx)
    THEN /\ lastAlert' = {[fresh |-> FALSE, token_found |-> FALSE,
                           wallet_found |-> FALSE, sent |-> FALSE,
                           total |-> alerts[tx]]}
         /\ UNCHANGED <<processed, alerts>>
    ELSE LET sent == AlertSent(token_info, eth_found, wallet_found)
             n    == IF sent THEN Sat2(alerts[tx] + 1) ELSE alerts[tx]
         IN  \* mark_transaction_processed: the row is absent, the INSERT succeeds
             /\ processed' = processed \cup {tx}
             /\ alerts' = [alerts EXCEPT ![tx] = n]
             /\ lastAlert' = {[fresh |-> TRUE, token_found |-> token_info.found,
                               wallet_found |-> wallet_found, sent |-> sent,
                               total |-> n]}

\* ---- check_block_for_swaps: leaving a log, a transaction, a block --------

\* The scan of block_number ends with status st; kind names the exception
\* that ended it ("ok" when none did).  check_block_for_swaps returns, so its
\* locals (block, tx, receipt, log) are gone.
EndBlock(st, kind) ==
    /\ status' = [status EXCEPT ![block_number] = st]
    /\ ntx' = 0 /\ txi' = 0 /\ nlogs' = 0 /\ logi' = 0
    /\ IF kind # "ok" /\ ErrorPropagates(kind)
       THEN \* the exception reaches line 129 of listen_for_swaps
            /\ pc' = "backoff"
            /\ UNCHANGED <<block_number, last_block>>
       ELSE IF block_number + 1 <= LastBlockOfTick(current_block)
       THEN /\ block_number' = block_number + 1
            /\ pc' = "block"
            /\ UNCHANGED last_block
       ELSE /\ last_block' = AdvancedLastBlock(current_block, last_block)
            /\ pc' = "sleep"
            /\ UNCHANGED block_number

\* next transaction of the block (line 162); the receipt of the transaction
\* just left is not read again
AfterTx ==
    IF txi < ntx
    THEN /\ txi' = txi + 1
         /\ nlogs' = 0 /\ logi' = 0
         /\ pc' = "tx"
         /\ UNCHANGED <<ntx, status, block_number, last_block>>
    ELSE EndBlock("complete", "ok")

\* next log of the receipt (line 169)
AfterLog ==
    IF logi < nlogs
    THEN /\ logi' = logi + 1
         /\ UNCHANGED <<pc, ntx, txi, nlogs, status, block_number, last_block>>
    ELSE AfterTx

\* ---- the scanner ----------------------------------------------------------

InitClassOff ==
    /\ cpc = "off"
    /\ event_args = [amount0In |-> 0, amount1In |-> 0, amount0Out |-> 0, amount1Out |-> 0]
    /\ pair_address = "pairA"
    /\ is_buy = FALSE
    /\ buy_event = {}

\* the listener built with this registry, before listen_for_swaps
InitScanner(registry) ==
    /\ pc = "idle"
    /\ running = FALSE
    /\ pairs = registry
    /\ last_block = 0
    /\ current_block = 0
    /\ block_number = 0
    /\ ntx = 0 /\ txi = 0 /\ nlogs = 0 /\ logi = 0
    /\ processed = {}
    /\ alerts = [t \in TxHashes |-> 0]
    /\ run = 1
    /\ start_height = 0
    /\ stop_called = FALSE
    /\ status = [h \in Heights |-> "unscanned"]
    /\ fetchCount = [h \in Heights |-> 0]
    /\ lastEmitted = <<0, 0, 0>>
    /\ emitCount = 0
    /\ lastAlert = {}

InitListener == InitScanner(PairAddresses)

InitHandOff ==
    receiptBuys = 0

\* __init__, line 47: the clock of the model starts when the listener is built
InitHeartbeat ==
    /\ now = 0
    /\ last_heartbeat = 0
    /\ periodicAt = -1
    /\ prevPeriodicAt = -1
    /\ last_hb_event = {}
    /\ hb_handled = "none"

\* the registry the scanner runs with: built from tokenA and tokenB, whose
\* lookups all answered
InitRegistry ==
    /\ token_addresses = <<"tokenA", "tokenB">>
    /\ lookups = <<"ok", "ok">>
    /\ reg_pc = "ready"
    /\ reg_n = 2
    /\ reg_arg = <<"TOKENA", "tokenB">>
    /\ reg_caller = "init"

\* main.py, lines 34-42: the listener was built from the rows of the table
InitAdmin ==
    /\ monitored_tokens = {"TOKENA", "tokenB"}
    /\ admin_reply = "none"
    /\ emitted_for = "none"

\* ---- the price table and the pump-and-dump detector: the pure parts ------
\* database.py, lines 3-5: the names the module binds besides its class
DatabaseNames == {"sqlite3", "json", "DATABASE_PATH"}
\* evaluating a name the module does not bind raises NameError
NameDefined(name) == name \in DatabaseNames

PriceTokens == {"tokenA", "tokenB"}
Prices  == 0..MaxPrice
Volumes == 0..MaxVolume

\* database.py, lines 43-51: PRIMARY KEY (token_address, timestamp)
SameKey(r1, r2) ==
    r1.token_address = r2.token_address /\ r1.timestamp = r2.timestamp

\* INSERT OR REPLACE, line 151: the row of the same key goes, the new row comes
InsertOrReplace(table, row) ==
    {r \in table : ~SameKey(r, row)} \cup {row}

\* config.py
PUMP_DUMP_PERCENT_THRESHOLD == 20
PUMP_DUMP_TIME_WINDOW == 24

\* ORDER BY timestamp, line 164
RECURSIVE OrderByTimestamp(_)
OrderByTimestamp(rows) ==
    IF rows = {} THEN <<>>
    ELSE LET first == CHOOSE r \in rows : \A q \in rows : r.timestamp <= q.timestamp
         IN  <<first>> \o OrderByTimestamp(rows \ {first})

\* the SELECT of lines 163-167 for one token at time t
SelectHistory(table, token, t, hours) ==
    OrderByTimestamp({r \in table : /\ r.token_address = token
                                     /\ r.timestamp >= t - hours * 3600})

\* get_token_price_history, lines 160-170: line 162 evaluates datetime and
\* timedelta; the NameError is caught at line 168 and [] is returned
get_token_price_history(table, token, t, hours) ==
    IF NameDefined("datetime") /\ NameDefined("timedelta")
    THEN SelectHistory(table, token, t, hours)
    ELSE <<>>

RECURSIVE SumTo(_, _)
SumTo(f, n) == IF n = 0 THEN 0 ELSE f[n] + SumTo(f, n - 1)

\* np.argmax / np.argmin: the first index of the extreme value
ArgMax(f, lo, hi) ==
    CHOOSE i \in lo..hi : /\ \A j \in lo..hi : f[j] <= f[i]
                          /\ \A j \in lo..(i - 1) : f[j] < f[i]
ArgMin(f, lo, hi) ==
    CHOOSE i \in lo..hi : /\ \A j \in lo..hi : f[j] >= f[i]
                          /\ \A j \in lo..(i - 1) : f[j] > f[i]

\* the return value None of detect_pump_dump
NoPattern ==
    [pattern_type |-> "none",
     start_timestamp |-> 0, peak_timestamp |-> 0, end_timestamp |-> 0,
     start_price |-> 0, peak_price |-> 0, end_price |-> 0,
     pump_percent |-> 0, dump_percent |-> 0, volume_change |-> 0]

\* variant: lines 63, 64 and 69 without their guards; the prices and volumes
\* are numpy floats, whose division by zero gives inf for a positive
\* numerator (shown here as twice the numerator) and nan for a zero one
\* (which compares false with everything, as 0 does with the thresholds)
RatioPercentUnguarded(num, den) ==
    IF den > 0 THEN (num * 100) \div den ELSE num * 200
\* lines 63, 64 and 69: num / den * 100 if den > 0 else 0.  A percentage is
\* kept as its integer part, which compares with the integer thresholds as
\* the quotient itself does.
RatioPercent(num, den) ==
    IF den > 0 THEN (num * 100) \div den ELSE 0

\* variant: with the peak at the first row, the minimum of the whole series
MinBeforeIdxWholeSeries(prices, n, max_price_idx) ==
    IF max_price_idx > 1
    THEN ArgMin(prices, 1, max_price_idx - 1) ELSE ArgMin(prices, 1, n)
\* lines 45-51: the minimum of prices[:max_price_idx], or the first row when
\* the peak is the first row
MinBeforeIdx(prices, n, max_price_idx) ==
    IF max_price_idx > 1
    THEN ArgMin(prices, 1, max_price_idx - 1) ELSE 1

\* detect_pump_dump, lines 34-74, on a series of at least two rows: the peak,
\* the minima around it, the three ratios and the test.  Sequences count from
\* 1.  The mean volume before the peak is sum / count, so (max - mean) / mean
\* is (max * count - sum) / sum, and mean > 0 is sum > 0.
PumpDumpRatios(price_history) ==
    LET n          == Len(price_history)
        prices     == [i \in 1..n |-> price_history[i].price_usd]
        volumes    == [i \in 1..n |-> price_history[i].volume_usd]
        max_price_idx == ArgMax(prices, 1, n)
        max_price     == prices[max_price_idx]
        min_before_idx == MinBeforeIdx(prices, n, max_price_idx)
        min_price_before == prices[min_before_idx]
        min_after_idx == IF max_price_idx < n
                         THEN ArgMin(prices, max_price_idx + 1, n) ELSE n
        min_price_after == prices[min_after_idx]
        pump_percent == RatioPercent(max_price - min_price_before, min_price_before)
        dump_percent == RatioPercent(max_price - min_price_after, max_price)
        count_before == IF max_price_idx > 1 THEN max_price_idx - 1 ELSE 1
        sum_before   == IF max_price_idx > 1
                        THEN SumTo(volumes, max_price_idx - 1) ELSE volumes[1]
        max_volume   == volumes[ArgMax(volumes, 1, n)]
        volume_increase == RatioPercent(max_volume * count_before - sum_before,
                                        sum_before)
    IN  [max_price_idx |-> max_price_idx,
         min_before_idx |-> min_before_idx,
         min_after_idx |-> min_after_idx,
         max_price |-> max_price,
         min_price_before |-> min_price_before,
         min_price_after |-> min_price_after,
         sum_before |-> sum_before,
         pump_percent |-> pump_percent,
         dump_percent |-> dump_percent,
         volume_increase |-> volume_increase,
         is_pump_dump |-> /\ pump_percent >= PUMP_DUMP_PERCENT_THRESHOLD
                          /\ dump_percent >= PUMP_DUMP_PERCENT_THRESHOLD
                          /\ volume_increase >= 50]

\* detect_pump_dump, lines 31-92, on the rows the query returned
PumpDump(price_history) ==
    IF Len(price_history) < 2 THEN NoPattern
    ELSE
    LET r == PumpDumpRatios(price_history)
    IN  IF r.is_pump_dump
        THEN [pattern_type |-> "pump_dump",
              start_timestamp |-> price_history[r.min_before_idx].timestamp,
              peak_timestamp |-> price_history[r.max_price_idx].timestamp,
              end_timestamp |-> price_history[r.min_after_idx].timestamp,
              start_price |-> r.min_price_before,
              peak_price |-> r.max_price,
              end_price |-> r.min_price_after,
              pump_percent |-> r.pump_percent,
              dump_percent |-> r.dump_percent,
              volume_change |-> r.volume_increase]
        ELSE NoPattern

\* config.py
ACCUMULATION_THRESHOLD == 5
ACCUMULATION_TIME_WINDOW == 48

\* get_recent_buys, lines 150-154: a placeholder that returns [] whatever
\* Buy events there were
get_recent_buys(buys, token, hours) == <<>>

\* line 122 and the test of line 125: np.std (the population standard
\* deviation) over np.mean, as a percentage, below percent.  With S the sum
\* and Q the sum of squares of the n prices, (std / mean)^2 is
\* (n * Q - S^2) / S^2.  For a mean of 0 numpy gives nan, and nan < percent is
\* false.
VolatilityBelow(prices, n, percent) ==
    LET S == SumTo(prices, n)
        Q == SumTo([i \in 1..n |-> prices[i] * prices[i]], n)
    IN  /\ S > 0
        /\ (n * Q - S * S) * 10000 < percent * percent * S * S

\* the return value None of detect_accumulation
NoAccumulation ==
    [pattern_type |-> "none", start_timestamp |-> 0, end_timestamp |-> 0,
     start_price |-> 0, end_price |-> 0, percent_change |-> 0,
     wallet_count |-> 0, accumulating_wallets |-> {}]

\* detect_accumulation, lines 101-148, on the buys and the rows its two
\* queries returned (percent_change is rounded down)
Accumulation(recent_buys, price_history) ==
    IF Len(recent_buys) < ACCUMULATION_THRESHOLD THEN NoAccumulation
    ELSE
    LET buys_of(w) == {i \in 1..Len(recent_buys) : recent_buys[i].buyer = w}
        accumulating_wallets ==
            {w \in {recent_buys[i].buyer : i \in 1..Len(recent_buys)} :
                Cardinality(buys_of(w)) >= 3}
        n      == Len(price_history)
        prices == [i \in 1..n |-> price_history[i].price_usd]
    IN  IF accumulating_wallets = {} THEN NoAccumulation
        ELSE IF n < 2 THEN NoAccumulation
        ELSE IF ~VolatilityBelow(prices, n, 15) THEN NoAccumulation
        ELSE
        LET all_buys == UNION {buys_of(w) : w \in accumulating_wallets}
            times    == {recent_buys[i].timestamp : i \in all_buys}
            start_time == CHOOSE t \in times : \A u \in times : t <= u
            end_time   == CHOOSE t \in times : \A u \in times : t >= u
            from_start == {i \in 1..n : price_history[i].timestamp >= start_time}
            to_end     == {i \in 1..n : price_history[i].timestamp <= end_time}
            first(I)   == CHOOSE i \in I : \A j \in I : i <= j
            start_price == IF from_start # {} THEN prices[first(from_start)]
                                              ELSE prices[1]
            end_price   == IF to_end # {} THEN prices[first(to_end)]
                                          ELSE prices[n]
        IN  [pattern_type |-> "accumulation",
             start_timestamp |-> start_time,
             end_timestamp |-> end_time,
             start_price |-> start_price,
             end_price |-> end_price,
             percent_change |-> IF start_price > 0
                                THEN ((end_price - start_price) * 100) \div start_price
                                ELSE 0,
             wallet_count |-> Cardinality(accumulating_wallets),
             accumulating_wallets |-> accumulating_wallets]

\* the ratios of a series the detector has not looked at
NoRatios ==
    [min_price_before |-> 0, max_price |-> 0, sum_before |-> 0,
     pump_percent |-> 0, dump_percent |-> 0, volume_increase |-> 0,
     is_pump_dump |-> FALSE]

\* ---- send_buy_alert step by step ------------------------------------------
Handlers == {"h1", "h2"}

\* database.py, lines 134-141: the INSERT into a table whose tx_hash is the
\* PRIMARY KEY raises IntegrityError for a hash that is present; the except
\* clause prints it and the method returns False
mark_transaction_processed(table, tx) ==
    IF tx \in table
    THEN [table |-> table, result |-> "False"]
    ELSE [table |-> table \cup {tx}, result |-> "True"]

\* telegram_bot.py, line 63: the return value of mark_transaction_processed
\* is not looked at; the handler goes on to line 66 whatever it was
ProceedsAfterMark(result) == TRUE

\* no invocation of send_buy_alert is under way
InitDedup ==
    /\ handler_pc = [h \in Handlers |-> "idle"]
    /\ handler_tx = [h \in Handlers |-> <<0, 1>>]
    /\ handler_insert = [h \in Handlers |-> "none"]

\* config.py, line 22: the router address, in its checksum spelling
UNISWAP_V2_ROUTER == "ROUTER"
\* tx['to'] as the chain client gives it: None for a contract creation, the
\* router in either spelling, or another address
TxTargets == {"None", "ROUTER", "router", "other"}
\* str.lower() on a target
LowerTarget(to) == IF to = "ROUTER" THEN "router" ELSE to
\* variant: line 164 as "if tx['to']:"
IsRouterTxAnyTarget(to) == to # "None"
\* line 164: tx['to'] and tx['to'].lower() == UNISWAP_V2_ROUTER.lower()
IsRouterTx(to) ==
    to # "None" /\ LowerTarget(to) = LowerTarget(UNISWAP_V2_ROUTER)

\* variant: no try around lines 177-190, so that a log that does not decode
\* reaches the handler of line 196
LogErrorEndsScanOnDecode(result) == result = "decode_error"
\* lines 191-193 and 273-274: the handler around the decoding passes, the
\* handler of _process_buy_event prints; neither re-raises
LogErrorEndsScan(result) == FALSE

\* no log has been examined
InitErrOff == log_result = "none"

\* no series has been read
InitSeriesOff == series_rows = <<>>

\* no request is out
InitCallOff == outbound = "none"

\* variant: no try around send_message, so that a failed send reaches the
\* handler of line 159 and ends send_buy_alert
SendErrorEndsLoopOnFailure(sent) == ~sent
\* telegram_bot.py lines 157-158: the handler inside the loop logs, and the
\* loop goes on with the next chat id
SendErrorEndsLoop(sent) == FALSE

\* database.py lines 93-99: the chat ids of the table, or [] when the SELECT
\* raised
get_registered_groups(table, selected) == IF selected THEN table ELSE {}

\* the table of a fresh database, no alert sent yet
InitGroups ==
    /\ registered_groups = {}
    /\ send_pc = "idle"
    /\ to_send = {}
    /\ attempted = {}
    /\ send_failed = {}
    /\ dispatch_groups = {}
    /\ groups_read = "none"

\* the scan stands before a transaction
InitFilterOff ==
    /\ fpc = "tx"
    /\ tx_to = "None"
    /\ logs_left = 0
    /\ log_address = "other"
    /\ emitted = {}

\* no lookup of the scan has been watched
InitLook ==
    /\ old_pairs = PairAddresses
    /\ seen_pairs = PairAddresses
    /\ seen_during = FALSE

\* no detector has been called
InitDetectOff ==
    /\ window_buys = <<>>
    /\ detect_call = "none"
    /\ accumulated = NoAccumulation
    /\ patterns = <<>>
    /\ ratios = NoRatios

\* no store_token_price call yet, no detect_pump_dump call yet
InitPriceCalls ==
    /\ last_store = [row |-> [token_address |-> "none", timestamp |-> 0,
                              price_usd |-> 0, volume_usd |-> 0],
                     result |-> FALSE]
    /\ same_key_writes = 0
    /\ detected = NoPattern
    /\ detect_token = "none"

\* Database._create_tables, lines 43-51, on a new database file
InitPrice ==
    /\ token_price_history = {}
    /\ price_now = 0
    /\ InitPriceCalls

InitExtBase ==
    /\ InitHandOff
    /\ InitHeartbeat
    /\ InitRegistry
    /\ InitAdmin

InitExtOff ==
    /\ InitExtBase
    /\ InitPrice
    /\ InitDetectOff
    /\ InitDedup
    /\ InitLook
    /\ InitFilterOff
    /\ InitErrOff
    /\ InitSeriesOff
    /\ InitCallOff
    /\ InitGroups

Init == InitListener /\ InitClassOff /\ InitExtOff

\* listen_for_swaps, line 99: the first height read is outside the try
StartFails ==
    /\ pc = "idle"
    /\ pc' = "crashed"
    /\ UNCHANGED <<running, pairs, last_block, current_block, block_number,
                   ntx, txi, nlogs, logi, botVars, obsVars, classVars, extVars>>

\* listen_for_swaps, lines 99-105: height read, running flag, first heartbeat
\* (the heartbeat event has no 'tx_hash': send_buy_alert logs the KeyError and
\* changes nothing)
Start ==
    /\ pc = "idle"
    /\ \E h \in Heights :
          /\ last_block' = InitialLastBlock(h)
          /\ start_height' = h
    /\ running' = TRUE
    /\ pc' = "loop"
    /\ UNCHANGED <<pairs, current_block, block_number, ntx, txi, nlogs, logi,
                   botVars, run, stop_called, status, fetchCount, lastEmitted,
                   emitCount, lastAlert, classVars, extVars>>

\* line 107: the loop test finds the flag cleared
LoopExit ==
    /\ pc = "loop"
    /\ ~LoopContinues(running)
    /\ pc' = "done"
    /\ UNCHANGED <<running, pairs, last_block, current_block, block_number,
                   ntx, txi, nlogs, logi, botVars, obsVars, classVars, extVars>>

\* line 110 raises: line 129 catches it
TickHeightFails ==
    /\ pc = "loop"
    /\ LoopContinues(running)
    /\ pc' = "backoff"
    /\ UNCHANGED <<running, pairs, last_block, current_block, block_number,
                   ntx, txi, nlogs, logi, botVars, obsVars, classVars, extVars>>

\* lines 110-122: height read, heartbeat when due (it changes nothing of the
\* scan), then the range test
Tick ==
    /\ pc = "loop"
    /\ LoopContinues(running)
    /\ \E h \in Heights :
          /\ current_block' = h
          /\ IF TickHasNewBlocks(h, last_block)
             THEN IF FirstBlockOfTick(last_block) <= LastBlockOfTick(h)
                  THEN /\ block_number' = FirstBlockOfTick(last_block)
                       /\ pc' = "block"
                       /\ UNCHANGED last_block
                  ELSE \* the range of line 122 is empty: line 125
                       /\ last_block' = AdvancedLastBlock(h, last_block)
                       /\ pc' = "sleep"
                       /\ UNCHANGED block_number
             ELSE /\ pc' = "sleep"
                  /\ UNCHANGED <<block_number, last_block>>
    /\ UNCHANGED <<running, pairs, ntx, txi, nlogs, logi,
                   botVars, obsVars, classVars, extVars>>

\* check_block_for_swaps, line 160: get_block answers
FetchBlockCommon ==
    /\ pc = "block"
    /\ fetchCount' = [fetchCount EXCEPT ![block_number] = Sat2(@ + 1)]
    /\ UNCHANGED <<running, pairs, current_block, botVars, run, start_height,
                   stop_called, lastEmitted, emitCount, lastAlert, classVars, extVars>>

\* line 160 raises BlockNotFound: line 194
FetchBlockNotFound ==
    /\ FetchBlockCommon
    /\ EndBlock("missing", "BlockNotFound")

\* line 160 raises anything else: line 196
FetchBlockFails ==
    /\ FetchBlockCommon
    /\ EndBlock("error", "Exception")

FetchBlock ==
    /\ FetchBlockCommon
    /\ \E n \in 0..MaxTxs :
          IF n = 0
          THEN EndBlock("complete", "ok")
          ELSE /\ ntx' = n
               /\ txi' = 1
               /\ pc' = "tx"
               /\ status' = [status EXCEPT ![block_number] = "scanning"]
               /\ UNCHANGED <<nlogs, logi, block_number, last_block>>

TxCommon ==
    /\ pc = "tx"
    /\ UNCHANGED <<running, pairs, current_block, botVars, run, start_height,
                   stop_called, fetchCount, lastEmitted, emitCount, lastAlert,
                   classVars, extVars>>

\* line 164: tx['to'] is None or another address than the router
SkipTx ==
    /\ TxCommon
    /\ AfterTx

\* line 166 raises: line 196 ends the scan of this block
ReceiptFails ==
    /\ TxCommon
    /\ EndBlock("error", "Exception")

\* line 166: the receipt of a router transaction
FetchReceipt ==
    /\ TxCommon
    /\ \E n \in 0..MaxLogs :
          IF n = 0
          THEN AfterTx
          ELSE /\ nlogs' = n
               /\ logi' = 1
               /\ pc' = "log"
               /\ UNCHANGED <<ntx, txi, status, block_number, last_block>>

\* lines 176-183 on every log the chain can carry: the emitting address, and
\* whether the log decodes as a Swap that _is_token_buy accepts
LogOutcomes ==
    {<<log.address,
       log.decodable /\ _is_token_buy(log.args, TokenOf(log.address))>> : log \in Logs}

\* _process_buy_event on every answer of the scanner's own market-data lookup
CallbackOutcomes == {CallbackReached(ti) : ti \in TokenInfos}

\* lines 169-193 for one log: registry test, decode, classify, and for a buy
\* _process_buy_event up to the callback, which returns whatever it met
ProcessLog ==
    /\ pc = "log"
    /\ \E lo \in LogOutcomes, reached \in CallbackOutcomes :
          IF lo[1] \in pairs /\ lo[2] /\ reached
          THEN /\ lastEmitted' = <<block_number, txi, logi>>
               /\ emitCount' = EmitStep(emitCount)
          ELSE UNCHANGED <<lastEmitted, emitCount>>
    /\ AfterLog
    /\ UNCHANGED <<running, pairs, current_block, run, start_height,
                   stop_called, fetchCount, lastAlert, botVars, classVars, extVars>>

\* lines 176-190 and _process_buy_event for one log of a registered pair and
\* one answer of the market-data lookup: where the log leaves the path to the
\* callback
LogEnd(log, token_info) ==
    IF ~log.decodable THEN "decode_error"
    ELSE IF ~_is_token_buy(log.args, TokenOf(log.address)) THEN "not_buy"
    ELSE IF ~CallbackReached(token_info) THEN "raised"
    ELSE "delivered"

\* every log the chain can carry: the emitting address and that end
LogEnds == {<<log.address, LogEnd(log, ti)>> : log \in Logs, ti \in TokenInfos}

\* lines 169-193 for one log, as ProcessLog, with the way the log ended kept
ProcessLogResult ==
    /\ pc = "log"
    /\ \E lo \in LogEnds :
          LET result == IF lo[1] \in pairs THEN lo[2] ELSE "skipped"
          IN  /\ log_result' = result
              /\ IF result = "delivered"
                 THEN /\ lastEmitted' = <<block_number, txi, logi>>
                      /\ emitCount' = EmitStep(emitCount)
                 ELSE UNCHANGED <<lastEmitted, emitCount>>
              /\ IF LogErrorEndsScan(result)
                 THEN EndBlock("error", "Exception")
                 ELSE AfterLog
    /\ UNCHANGED <<running, pairs, current_block, run, start_height,
                   stop_called, fetchCount, lastAlert, botVars, classVars,
                   handVars, hbVars, regVars, adminVars, priceVars, detVars,
                   dedupVars, lookVars, filterVars,
                   seriesVars,
                   callVars,
                   groupVars>>

\* line 128: asyncio.sleep(5)
Sleep ==
    /\ pc = "sleep"
    /\ pc' = "loop"
    /\ UNCHANGED <<running, pairs, last_block, current_block, block_number,
                   ntx, txi, nlogs, logi, botVars, obsVars, classVars, extVars>>

\* lines 129-131: log, asyncio.sleep(10), back to the loop test
Backoff ==
    /\ pc = "backoff"
    /\ pc' = "loop"
    /\ UNCHANGED <<running, pairs, last_block, current_block, block_number,
                   ntx, txi, nlogs, logi, botVars, obsVars, classVars, extVars>>

\* stop(): called from the signal handler, at any point of the run
Stop ==
    /\ pc \notin {"done", "crashed"}
    /\ running' = FALSE
    /\ stop_called' = TRUE
    /\ UNCHANGED <<pc, pairs, last_block, current_block, block_number,
                   ntx, txi, nlogs, logi, botVars, run, start_height, status,
                   fetchCount, lastEmitted, emitCount, lastAlert, classVars, extVars>>

Next ==
    \/ StartFails
    \/ Start
    \/ LoopExit
    \/ TickHeightFails
    \/ Tick
    \/ FetchBlockNotFound
    \/ FetchBlockFails
    \/ FetchBlock
    \/ SkipTx
    \/ ReceiptFails
    \/ FetchReceipt
    \/ ProcessLog
    \/ Sleep
    \/ Backoff
    \/ Stop

Spec == Init /\ [][Next]_vars

\* The steps of listen_for_swaps itself.  Once the coroutine is started the
\* event loop keeps running it: every await in it (the callback, the sleeps)
\* returns, and the chain client's calls return or raise.
ListenStep ==
    \/ LoopExit
    \/ TickHeightFails
    \/ Tick
    \/ FetchBlockNotFound
    \/ FetchBlockFails
    \/ FetchBlock
    \/ SkipTx
    \/ ReceiptFails
    \/ FetchReceipt
    \/ ProcessLog
    \/ Sleep
    \/ Backoff

SpecFair == Init /\ [][Next]_vars /\ WF_vars(ListenStep)

\* The scan with the end of every log kept; stop() is left out.
NextScanErrors ==
    \/ Start
    \/ TickHeightFails
    \/ Tick
    \/ FetchBlockNotFound
    \/ FetchBlockFails
    \/ FetchBlock
    \/ SkipTx
    \/ ReceiptFails
    \/ FetchReceipt
    \/ ProcessLogResult
    \/ Sleep
    \/ Backoff

SpecScanErrors == Init /\ [][NextScanErrors]_vars

\* ---- the scan and the market-data provider ---------------------------------
\* _process_buy_event calls DexData.get_token_info (line 241), whose
\* requests.get(url) of dex_data.py line 17 is given no timeout and is not
\* awaited: the coroutine, and with it the event loop, stands in the call
\* until the provider answers or the connection fails.  The calls of the
\* chain client return or raise, as in the scanner above.

\* lines 169-190 for a log that does not get as far as line 241
ProcessLogNoCall ==
    /\ pc = "log"
    /\ outbound = "none"
    /\ \E lo \in LogEnds :
          LET result == IF lo[1] \in pairs THEN lo[2] ELSE "skipped"
          IN  /\ result \in {"skipped", "decode_error", "not_buy"}
              /\ log_result' = result
    /\ AfterLog
    /\ UNCHANGED <<running, pairs, current_block, run, start_height,
                   stop_called, fetchCount, lastEmitted, emitCount, lastAlert,
                   botVars, classVars, handVars, hbVars, regVars, adminVars,
                   priceVars, detVars, dedupVars, lookVars, filterVars,
                   seriesVars, callVars,
                   groupVars>>

\* lines 169-190 and 219-241 for a Buy of a registered pair: the request of
\* dex_data.py line 17 goes out
CallMarketData ==
    /\ pc = "log"
    /\ outbound = "none"
    /\ \E lo \in LogEnds :
          /\ lo[1] \in pairs
          /\ lo[2] \in {"raised", "delivered"}
    /\ outbound' = "pending"
    /\ UNCHANGED <<listenerVars, botVars, obsVars, classVars, handVars, hbVars,
                   regVars, adminVars, priceVars, detVars, dedupVars, lookVars,
                   filterVars, errVars, seriesVars,
                   groupVars>>

\* the provider answers or the connection fails (dex_data.py lines 18-39),
\* and _process_buy_event goes on from line 243 to its end
MarketDataAnswers ==
    /\ pc = "log"
    /\ outbound = "pending"
    /\ outbound' = "none"
    /\ \E reached \in CallbackOutcomes :
          IF reached
          THEN /\ log_result' = "delivered"
               /\ lastEmitted' = <<block_number, txi, logi>>
               /\ emitCount' = EmitStep(emitCount)
          ELSE /\ log_result' = "raised"
               /\ UNCHANGED <<lastEmitted, emitCount>>
    /\ AfterLog
    /\ UNCHANGED <<running, pairs, current_block, run, start_height,
                   stop_called, fetchCount, lastAlert, botVars, classVars,
                   handVars, hbVars, regVars, adminVars, priceVars, detVars,
                   dedupVars, lookVars, filterVars, seriesVars,
                   groupVars>>

NextOutbound ==
    \/ Start
    \/ TickHeightFails
    \/ Tick
    \/ FetchBlockNotFound
    \/ FetchBlockFails
    \/ FetchBlock
    \/ SkipTx
    \/ ReceiptFails
    \/ FetchReceipt
    \/ ProcessLogNoCall
    \/ CallMarketData
    \/ MarketDataAnswers
    \/ Sleep
    \/ Backoff

\* The steps the event loop takes by itself once listen_for_swaps runs.  The
\* answer of the provider is not among them: nothing on this side of the
\* connection brings it about.
ScanStep ==
    \/ TickHeightFails
    \/ Tick
    \/ FetchBlockNotFound
    \/ FetchBlockFails
    \/ FetchBlock
    \/ SkipTx
    \/ ReceiptFails
    \/ FetchReceipt
    \/ ProcessLogNoCall
    \/ CallMarketData
    \/ Sleep
    \/ Backoff

SpecOutbound == Init /\ [][NextOutbound]_vars /\ WF_vars(ScanStep)

\* ---- the send loop and the registered groups --------------------------------
\* send_buy_alert from line 145 on, for an alert that got that far, next to
\* /register and /unregister, which the updater runs on its own threads.
\* Each call of Database is one statement on the table.

Chats == {"g1", "g2", "g3", "private"}
\* line 199: update.effective_chat.type in ['group', 'supergroup']
IsGroupChat(chat) == chat # "private"

\* register_command, lines 190-209; stored is "the INSERT OR REPLACE of
\* register_group went through"
RegisterCommand ==
    /\ \E chat \in Chats, stored \in BOOLEAN :
          registered_groups' =
              IF IsGroupChat(chat) /\ stored
              THEN registered_groups \cup {chat} ELSE registered_groups
    /\ UNCHANGED <<listenerVars, botVars, obsVars, classVars, handVars, hbVars,
                   regVars, adminVars, priceVars, detVars, dedupVars, lookVars,
                   filterVars, errVars, seriesVars, callVars, send_pc, to_send,
                   attempted, send_failed, dispatch_groups, groups_read>>

\* unregister_command, lines 212-224; deleted is "the DELETE of
\* unregister_group went through"
UnregisterCommand ==
    /\ \E chat \in Chats, deleted \in BOOLEAN :
          registered_groups' =
              IF deleted THEN registered_groups \ {chat} ELSE registered_groups
    /\ UNCHANGED <<listenerVars, botVars, obsVars, classVars, handVars, hbVars,
                   regVars, adminVars, priceVars, detVars, dedupVars, lookVars,
                   filterVars, errVars, seriesVars, callVars, send_pc, to_send,
                   attempted, send_failed, dispatch_groups, groups_read>>

\* lines 145-147: the list of chat ids is read once, before the loop
DispatchAlert ==
    /\ send_pc = "idle"
    /\ \E selected \in BOOLEAN :
          LET groups == get_registered_groups(registered_groups, selected)
          IN  /\ to_send' = groups
              /\ groups_read' = IF selected THEN "ok" ELSE "failed"
              /\ send_pc' = IF groups = {} THEN "idle" ELSE "sending"
    /\ dispatch_groups' = registered_groups
    /\ attempted' = {}
    /\ send_failed' = {}
    /\ UNCHANGED <<listenerVars, botVars, obsVars, classVars, handVars, hbVars,
                   regVars, adminVars, priceVars, detVars, dedupVars, lookVars,
                   filterVars, errVars, seriesVars, callVars,
                   registered_groups>>

\* lines 147-158 for the next chat id of the list: send_message returns or
\* raises
SendToGroup ==
    /\ send_pc = "sending"
    /\ \E chat \in to_send, sent \in BOOLEAN :
          LET rest == IF SendErrorEndsLoop(sent) THEN {} ELSE to_send \ {chat}
          IN  /\ attempted' = attempted \cup {chat}
              /\ send_failed' = IF sent THEN send_failed
                                ELSE send_failed \cup {chat}
              /\ to_send' = rest
              /\ send_pc' = IF rest = {} THEN "idle" ELSE "sending"
    /\ UNCHANGED <<listenerVars, botVars, obsVars, classVars, handVars, hbVars,
                   regVars, adminVars, priceVars, detVars, dedupVars, lookVars,
                   filterVars, errVars, seriesVars, callVars,
                   registered_groups, dispatch_groups, groups_read>>

NextGroups ==
    \/ RegisterCommand
    \/ UnregisterCommand
    \/ DispatchAlert
    \/ SendToGroup

SpecGroups == Init /\ [][NextGroups]_vars

\* ---- the alert handler fed with Buy events --------------------------------

\* the listener hands a BuyEvent with hash tx to send_buy_alert
DeliverBuy ==
    /\ \E tx \in TxHashes, ti \in TokenInfos, eth \in Lookups, wallet \in Lookups :
          /\ tx \in processed \/ Cardinality(processed) < MaxMarked
          /\ SendBuyAlert(tx, ti, eth, wallet)
    /\ UNCHANGED <<listenerVars, run, start_height, stop_called, status,
                   fetchCount, lastEmitted, emitCount, classVars, extVars>>

\* the process is started again: bot_data.db keeps its rows
RestartBot ==
    /\ run < MaxRuns
    /\ run' = run + 1
    /\ UNCHANGED <<listenerVars, botVars, start_height, stop_called, status,
                   fetchCount, lastEmitted, emitCount, lastAlert, classVars, extVars>>

\* the listener hands a heartbeat event to send_buy_alert
DeliverHeartbeat ==
    /\ \E message \in {"started", "running"} :
          LET e == HeartbeatEvent(message, now)
          IN  /\ last_hb_event' = {e}
              /\ hb_handled' = HandlerEnd(e.keys)
    /\ UNCHANGED <<listenerVars, botVars, obsVars, classVars, handVars,
                   now, last_heartbeat, periodicAt, prevPeriodicAt,
                   regVars, adminVars, priceVars,
                   laterVars>>

NextAlert ==
    \/ DeliverBuy
    \/ DeliverHeartbeat
    \/ RestartBot

SpecAlert == Init /\ [][NextAlert]_vars

\* ---- the loop and its heartbeat -------------------------------------------
\* listen_for_swaps with the scan of a tick's range taken as one step (no
\* error of a block scan reaches the loop), and a clock.

TimeUnit == heartbeat_interval \div StepsPerInterval
MaxClock == MaxIntervals * heartbeat_interval

\* time passes, at any point of the run
TimePasses ==
    /\ now + TimeUnit <= MaxClock
    /\ now' = now + TimeUnit
    /\ UNCHANGED <<listenerVars, botVars, obsVars, classVars, handVars,
                   last_heartbeat, periodicAt, prevPeriodicAt, last_hb_event,
                   hb_handled,
                   regVars, adminVars, priceVars,
                   laterVars>>

\* lines 99-105: height read, running flag, the first heartbeat
HbStart ==
    /\ pc = "idle"
    /\ \E h \in Heights :
          /\ last_block' = InitialLastBlock(h)
          /\ start_height' = h
    /\ running' = TRUE
    /\ last_hb_event' = {HeartbeatEvent("started", now)}
    /\ hb_handled' = HandlerEnd(HeartbeatEventKeys)
    /\ pc' = "loop"
    /\ UNCHANGED <<pairs, current_block, block_number, ntx, txi, nlogs, logi,
                   botVars, run, stop_called, status, fetchCount, lastEmitted,
                   emitCount, lastAlert, classVars, handVars,
                   now, last_heartbeat, periodicAt, prevPeriodicAt,
                   regVars, adminVars, priceVars,
                   laterVars>>

\* lines 110-117: height read, then the heartbeat when it is due
HbTickHeight ==
    /\ pc = "loop"
    /\ LoopContinues(running)
    /\ \E h \in Heights : current_block' = h
    /\ IF HeartbeatDue(now - last_heartbeat)
       THEN /\ last_hb_event' = {HeartbeatEvent("running", now)}
            /\ hb_handled' = HandlerEnd(HeartbeatEventKeys)
            /\ periodicAt' = now
            /\ prevPeriodicAt' = periodicAt
            /\ last_heartbeat' = now
       ELSE UNCHANGED <<last_hb_event, hb_handled, periodicAt, prevPeriodicAt,
                        last_heartbeat>>
    /\ pc' = "range"
    /\ UNCHANGED <<running, pairs, last_block, block_number, ntx, txi, nlogs,
                   logi, botVars, obsVars, classVars, handVars, now,
                   regVars, adminVars, priceVars,
                   laterVars>>

\* lines 119-125: the range of the tick, scanned to its end
HbScanRange ==
    /\ pc = "range"
    /\ IF TickHasNewBlocks(current_block, last_block)
       THEN last_block' = AdvancedLastBlock(current_block, last_block)
       ELSE UNCHANGED last_block
    /\ pc' = "sleep"
    /\ UNCHANGED <<running, pairs, current_block, block_number, ntx, txi,
                   nlogs, logi, botVars, obsVars, classVars, extVars>>

NextHeartbeat ==
    \/ TimePasses
    \/ HbStart
    \/ TickHeightFails
    \/ HbTickHeight
    \/ HbScanRange
    \/ Sleep
    \/ Backoff
    \/ Stop
    \/ LoopExit

SpecHeartbeat == Init /\ [][NextHeartbeat]_vars

\* ---- the pair registry: __init__, update_monitored_tokens, initialize_pairs -

\* The caller passes a list of n entries; the entries are drawn as they are
\* read (the comprehension of lines 34 and 91 and the loop of line 56 read
\* them once, in list order).

\* the registry is emptied and initialize_pairs entered
BeginRegistryCore(caller, n) ==
    /\ token_addresses' = <<>>
    /\ lookups' = <<>>
    /\ pairs' = ClearedPairs(pairs)
    /\ reg_arg' = <<>>
    /\ reg_n' = n
    /\ reg_caller' = caller
    /\ reg_pc' = caller
    /\ UNCHANGED <<pc, running, last_block, current_block, block_number, ntx,
                   txi, nlogs, logi, botVars, obsVars, classVars, handVars,
                   hbVars,
                   adminVars, priceVars,
                   filterVars,
                   errVars,
                   seriesVars,
                   callVars,
                   groupVars>>

BeginRegistry(caller, n) ==
    /\ BeginRegistryCore(caller, n)
    /\ UNCHANGED laterVars

\* __init__, lines 31-50: a listener is built (the process is started again)
BuildListener ==
    /\ reg_pc = "ready"
    /\ \E n \in 0..MaxTokens : BeginRegistry("init", n)

\* update_monitored_tokens, lines 91-93
UpdateMonitoredTokens ==
    /\ reg_pc = "ready"
    /\ \E n \in 0..MaxTokens : BeginRegistry("update", n)

\* initialize_pairs, lines 56-85: the next entry of the list
InitializePair ==
    /\ reg_pc \in {"init", "update"}
    /\ Len(reg_arg) < reg_n
    /\ \E addr \in RawAddresses :
          /\ reg_arg' = Append(reg_arg, addr)
          /\ IF LowerEntry(addr) = <<>>
             THEN UNCHANGED <<token_addresses, lookups, pairs, reg_pc>>
             ELSE \E answer \in LookupAnswers :
                    LET token == LowerEntry(addr)[1]
                    IN  /\ token_addresses' = Append(token_addresses, token)
                        /\ lookups' = Append(lookups, answer)
                        /\ pairs' = PairsAfterLookup(pairs, token, answer)
                        /\ reg_pc' = IF LoopGoesOn(answer) THEN reg_pc ELSE "ready"
    /\ UNCHANGED <<pc, running, last_block, current_block, block_number, ntx,
                   txi, nlogs, logi, botVars, obsVars, classVars, handVars,
                   hbVars, reg_n, reg_caller,
                   adminVars, priceVars,
                   laterVars>>

\* initialize_pairs returns: the list is exhausted
InitializePairsReturn ==
    /\ reg_pc \in {"init", "update"}
    /\ Len(reg_arg) = reg_n
    /\ reg_pc' = "ready"
    /\ UNCHANGED <<listenerVars, botVars, obsVars, classVars, handVars, hbVars,
                   token_addresses, lookups, reg_n, reg_arg, reg_caller,
                   adminVars, priceVars,
                   laterVars>>

NextRegistry ==
    \/ BuildListener
    \/ UpdateMonitoredTokens
    \/ InitializePair
    \/ InitializePairsReturn

SpecRegistry == Init /\ [][NextRegistry]_vars

\* ---- update_monitored_tokens next to a running scan ------------------------
\* update_monitored_tokens is a plain method that blocks on the chain's
\* answers; the scan is a coroutine of the event loop.  Called from another
\* thread (the handlers of the Updater run on its threads) it runs beside the
\* scan, and no lock of the listener separates lines 92-93 from line 171.

\* lines 91-92, with the registry as it was kept for comparison
UpdateBesideScan ==
    /\ reg_pc = "ready"
    /\ old_pairs' = pairs
    /\ seen_during' = FALSE
    /\ \E n \in 0..MaxTokens : BeginRegistryCore("update", n)
    /\ UNCHANGED <<detVars, dedupVars, seen_pairs>>

\* check_block_for_swaps, line 171: log['address'].lower() in self.pairs
ScanLookup ==
    /\ seen_pairs' = pairs
    /\ seen_during' = (reg_pc = "update")
    /\ UNCHANGED <<listenerVars, botVars, obsVars, classVars, handVars, hbVars,
                   regVars, adminVars, priceVars, detVars, dedupVars, old_pairs,
                   filterVars,
                   errVars,
                   seriesVars,
                   callVars,
                   groupVars>>

NextScanUpdate ==
    \/ UpdateBesideScan
    \/ InitializePair
    \/ InitializePairsReturn
    \/ ScanLookup

SpecScanUpdate == Init /\ [][NextScanUpdate]_vars

\* ---- the filters of the scan ------------------------------------------------
\* check_block_for_swaps on one transaction after the other, with a registry
\* that holds any of the pairs.

InitFilter ==
    /\ \E registry \in SUBSET PairAddresses : InitScanner(registry)
    /\ InitClassOff
    /\ InitExtOff

\* lines 162-166: the next transaction, the test of its target and, for a
\* router transaction, its receipt (n logs, or the fetch raises and line 196
\* ends the scan of the block)
FilterTx ==
    /\ fpc = "tx"
    /\ \E to \in TxTargets, n \in 0..MaxLogs, fetched \in BOOLEAN :
          /\ tx_to' = to
          /\ IF IsRouterTx(to) /\ fetched /\ n > 0
             THEN logs_left' = n /\ fpc' = "log"
             ELSE logs_left' = 0 /\ fpc' = "tx"
    /\ emitted' = {}
    /\ UNCHANGED <<listenerVars, botVars, obsVars, classVars, handVars, hbVars,
                   regVars, adminVars, priceVars, detVars, dedupVars, lookVars,
                   log_address,
                   errVars,
                   seriesVars,
                   callVars,
                   groupVars>>

\* lines 169-193 and _process_buy_event for the next log of the receipt
FilterLog ==
    /\ fpc = "log"
    /\ \E log \in Logs, ti \in TokenInfos :
          /\ log_address' = log.address
          /\ emitted' =
                IF /\ log.address \in pairs
                   /\ log.decodable
                   /\ _is_token_buy(log.args, TokenOf(log.address))
                   /\ CallbackReached(ti)
                THEN {[token_address |-> TokenOf(log.address),
                       eth_raw |-> BuyAmounts(log.args).eth_raw,
                       token_raw |-> BuyAmounts(log.args).token_raw]}
                ELSE {}
    /\ logs_left' = logs_left - 1
    /\ fpc' = IF logs_left > 1 THEN "log" ELSE "tx"
    /\ UNCHANGED <<listenerVars, botVars, obsVars, classVars, handVars, hbVars,
                   regVars, adminVars, priceVars, detVars, dedupVars, lookVars,
                   tx_to,
                   errVars,
                   seriesVars,
                   callVars,
                   groupVars>>

NextFilter ==
    \/ FilterTx
    \/ FilterLog

SpecFilter == InitFilter /\ [][NextFilter]_vars

\* ---- the admin commands next to the running scanner -----------------------
\* telegram_bot.py, add_token_command and remove_token_command, and the
\* scanner with the registry it was built with.  TelegramBot holds no
\* reference to the listener, and no line of the repository calls
\* update_monitored_tokens.

Users == {"admin", "other"}
\* the first argument of a command: an address in some spelling (tokenA in
\* its checksum and in its lowercase spelling), or a string that w3.is_address
\* rejects
CommandArgs == (RawAddresses \ {""}) \cup {"tokenA", "notanaddress"}
is_address(arg) == arg \in CommandArgs \ {"notanaddress"}

\* lines 227-256; enough is "the command has its three arguments", stored is
\* "the INSERT OR REPLACE of Database.add_token went through"
AddTokenCommand ==
    /\ \E user \in Users, enough \in BOOLEAN, arg \in CommandArgs, stored \in BOOLEAN :
          IF user # "admin"
          THEN admin_reply' = "denied" /\ UNCHANGED monitored_tokens
          ELSE IF ~enough
          THEN admin_reply' = "usage" /\ UNCHANGED monitored_tokens
          ELSE IF ~is_address(arg)
          THEN admin_reply' = "invalid" /\ UNCHANGED monitored_tokens
          ELSE IF stored
          THEN /\ monitored_tokens' = monitored_tokens \cup {arg}
               /\ admin_reply' = "added"
          ELSE admin_reply' = "failed" /\ UNCHANGED monitored_tokens
    /\ UNCHANGED <<listenerVars, botVars, obsVars, classVars, handVars, hbVars,
                   regVars, emitted_for,
                   priceVars,
                   laterVars>>

\* lines 259-281; the DELETE of Database.remove_token matches the key as it
\* was written
RemoveTokenCommand ==
    /\ \E user \in Users, enough \in BOOLEAN, arg \in CommandArgs, deleted \in BOOLEAN :
          IF user # "admin"
          THEN admin_reply' = "denied" /\ UNCHANGED monitored_tokens
          ELSE IF ~enough
          THEN admin_reply' = "usage" /\ UNCHANGED monitored_tokens
          ELSE IF deleted
          THEN /\ monitored_tokens' = monitored_tokens \ {arg}
               /\ admin_reply' = "removed"
          ELSE admin_reply' = "failed" /\ UNCHANGED monitored_tokens
    /\ UNCHANGED <<listenerVars, botVars, obsVars, classVars, handVars, hbVars,
                   regVars, emitted_for,
                   priceVars,
                   laterVars>>

\* check_block_for_swaps, lines 169-193, on the next log the scan meets
ScanLog ==
    /\ \E lo \in LogOutcomes, reached \in CallbackOutcomes :
          emitted_for' = IF lo[1] \in pairs /\ lo[2] /\ reached
                         THEN TokenOf(lo[1]) ELSE "none"
    /\ UNCHANGED <<listenerVars, botVars, obsVars, classVars, handVars, hbVars,
                   regVars, monitored_tokens, admin_reply,
                   priceVars,
                   laterVars>>

NextAdmin ==
    \/ AddTokenCommand
    \/ RemoveTokenCommand
    \/ ScanLog

\* the scanner keeps scanning; nothing obliges an admin to send commands
SpecAdmin == Init /\ [][NextAdmin]_vars /\ WF_vars(ScanLog)

\* ---- the price table --------------------------------------------------------
\* Database.store_token_price, lines 147-158.  Line 149 evaluates datetime,
\* inside the try: where the name is not bound the NameError is caught at
\* line 156 and the call returns False without having reached the INSERT.
\* Failures of sqlite itself are left out.
StoreTokenPrice ==
    /\ \E token \in PriceTokens, price \in Prices, volume \in Volumes :
          LET ok  == NameDefined("datetime")
              row == [token_address |-> token, timestamp |-> price_now,
                      price_usd |-> price, volume_usd |-> volume]
          IN  /\ token_price_history' =
                    IF ok THEN InsertOrReplace(token_price_history, row)
                          ELSE token_price_history
              /\ same_key_writes' =
                    IF same_key_writes > 0 /\ SameKey(last_store.row, row)
                    THEN Sat2(same_key_writes + 1) ELSE 1
              /\ last_store' = [row |-> row, result |-> ok]
    /\ UNCHANGED <<listenerVars, botVars, obsVars, classVars, handVars, hbVars,
                   regVars, adminVars, price_now, detected, detect_token,
                   laterVars>>

\* the wall clock moves on by a second
PriceClockTick ==
    /\ price_now < MaxPriceClock
    /\ price_now' = price_now + 1
    /\ UNCHANGED <<listenerVars, botVars, obsVars, classVars, handVars, hbVars,
                   regVars, adminVars, token_price_history, last_store,
                   same_key_writes, detected, detect_token,
                   laterVars>>

NextPrice ==
    \/ StoreTokenPrice
    \/ PriceClockTick

SpecPrice == Init /\ [][NextPrice]_vars

\* ---- the pump-and-dump detector on a price table ---------------------------
\* The database file outlives the process (CREATE TABLE IF NOT EXISTS), so
\* the rows the detector meets are whatever the file holds: up to MaxPoints
\* rows of one token, one a second, all inside the time window.
PriceRow(token, t, price, volume) ==
    [token_address |-> token, timestamp |-> t,
     price_usd |-> price, volume_usd |-> volume]

InitPattern ==
    /\ InitListener
    /\ InitClassOff
    /\ InitExtBase
    /\ InitPriceCalls
    /\ InitDetectOff
    /\ InitDedup
    /\ InitLook
    /\ InitFilterOff
    /\ InitErrOff
    /\ InitSeriesOff
    /\ InitCallOff
    /\ InitGroups
    /\ price_now = MaxPoints
    /\ \E n \in 0..MaxPoints :
          \E ps \in [1..n -> Prices], vs \in [1..n -> Volumes] :
              token_price_history =
                  {PriceRow("tokenA", i, ps[i], vs[i]) : i \in 1..n}

\* PatternDetector.detect_pump_dump, lines 27-92
DetectPumpDump ==
    /\ \E token \in PriceTokens :
          /\ detected' = PumpDump(get_token_price_history(
                              token_price_history, token, price_now,
                              PUMP_DUMP_TIME_WINDOW))
          /\ detect_token' = token
    /\ UNCHANGED <<listenerVars, botVars, obsVars, classVars, handVars, hbVars,
                   regVars, adminVars, token_price_history, price_now,
                   last_store, same_key_writes,
                   laterVars>>

NextPattern == DetectPumpDump

SpecPattern == InitPattern /\ [][NextPattern]_vars

\* ---- the two detectors on a price table and a run of Buy events ------------
\* The rows of the table are those of tokenA, one a second, with prices in
\* units of 0.1 USD; the Buy events are those of tokenA that the scanner met
\* inside the accumulation window, each with its buyer and its time.
DetectPrices  == {6, 9, 10, 12}
DetectVolumes == {1, 2}
Wallets == {"w1", "w2"}
BuyAt(i, wallet) ==
    [buyer |-> wallet, timestamp |-> IF i <= MaxPoints THEN i ELSE MaxPoints]

InitDetect ==
    /\ InitListener
    /\ InitClassOff
    /\ InitExtBase
    /\ InitPriceCalls
    /\ price_now = MaxPoints
    /\ \E n \in 0..MaxPoints :
          \E ps \in [1..n -> DetectPrices], vs \in [1..n -> DetectVolumes] :
              token_price_history =
                  {PriceRow("tokenA", i, ps[i], vs[i]) : i \in 1..n}
    /\ \E n \in 0..MaxBuys :
          \E ws \in [1..n -> Wallets] :
              window_buys = [i \in 1..n |-> BuyAt(i, ws[i])]
    /\ detect_call = "none"
    /\ accumulated = NoAccumulation
    /\ patterns = <<>>
    /\ ratios = NoRatios
    /\ InitDedup
    /\ InitLook
    /\ InitFilterOff
    /\ InitErrOff
    /\ InitSeriesOff
    /\ InitCallOff
    /\ InitGroups

\* PatternDetector.detect_accumulation, lines 94-148
detect_accumulation(token) ==
    Accumulation(get_recent_buys(window_buys, token, ACCUMULATION_TIME_WINDOW),
                 get_token_price_history(token_price_history, token, price_now,
                                         ACCUMULATION_TIME_WINDOW))

DetectAccumulation ==
    /\ \E token \in PriceTokens :
          /\ accumulated' = detect_accumulation(token)
          /\ detect_token' = token
    /\ detect_call' = "detect_accumulation"
    /\ UNCHANGED <<listenerVars, botVars, obsVars, classVars, handVars, hbVars,
                   regVars, adminVars, token_price_history, price_now,
                   last_store, same_key_writes, detected, window_buys,
                   patterns, ratios,
                   dedupVars,
                   lookVars,
                   filterVars,
                   errVars,
                   seriesVars,
                   callVars,
                   groupVars>>

\* PatternDetector.detect_patterns, lines 11-25: a detector's record is
\* appended if it is truthy, the pump_dump record first
DetectPatterns ==
    /\ \E token \in PriceTokens :
          LET pump_dump == PumpDump(get_token_price_history(
                               token_price_history, token, price_now,
                               PUMP_DUMP_TIME_WINDOW))
              accumulation == detect_accumulation(token)
          IN  /\ detected' = pump_dump
              /\ accumulated' = accumulation
              /\ patterns' =
                    (IF pump_dump # NoPattern THEN <<pump_dump>> ELSE <<>>)
                    \o (IF accumulation # NoAccumulation
                        THEN <<accumulation>> ELSE <<>>)
              /\ detect_token' = token
    /\ detect_call' = "detect_patterns"
    /\ UNCHANGED <<listenerVars, botVars, obsVars, classVars, handVars, hbVars,
                   regVars, adminVars, token_price_history, price_now,
                   last_store, same_key_writes, window_buys, ratios,
                   dedupVars, lookVars, filterVars, errVars, seriesVars,
                   callVars,
                   groupVars>>

NextDetect ==
    \/ DetectAccumulation
    \/ DetectPatterns

SpecDetect == InitDetect /\ [][NextDetect]_vars

\* ---- detect_pump_dump on the rows it is given -------------------------------
\* Lines 31-92 on every series of up to MaxPoints rows, one a second, with
\* prices and volumes from 0 on.

InitRatios ==
    /\ InitListener
    /\ InitClassOff
    /\ InitExtBase
    /\ InitPrice
    /\ InitDetectOff
    /\ InitDedup
    /\ InitLook
    /\ InitFilterOff
    /\ InitErrOff
    /\ InitCallOff
    /\ InitGroups
    /\ \E n \in 0..MaxPoints :
          \E ps \in [1..n -> 0..MaxRatioPrice], vs \in [1..n -> 0..MaxRatioVolume] :
              series_rows = [i \in 1..n |-> PriceRow("tokenA", i, ps[i], vs[i])]

\* lines 31-92 on the rows of line 30
AnalysePumpDump ==
    /\ detect_call' = "detect_pump_dump"
    /\ detect_token' = "tokenA"
    /\ detected' = PumpDump(series_rows)
    /\ ratios' =
          IF Len(series_rows) < 2 THEN NoRatios
          ELSE LET r == PumpDumpRatios(series_rows)
               IN  [min_price_before |-> r.min_price_before,
                    max_price |-> r.max_price,
                    sum_before |-> r.sum_before,
                    pump_percent |-> r.pump_percent,
                    dump_percent |-> r.dump_percent,
                    volume_increase |-> r.volume_increase,
                    is_pump_dump |-> r.is_pump_dump]
    /\ UNCHANGED <<listenerVars, botVars, obsVars, classVars, handVars, hbVars,
                   regVars, adminVars, token_price_history, price_now,
                   last_store, same_key_writes, window_buys, accumulated,
                   patterns, dedupVars, lookVars, filterVars, errVars,
                   seriesVars,
                   callVars,
                   groupVars>>

NextRatios ==
    \/ AnalysePumpDump

SpecRatios == InitRatios /\ [][NextRatios]_vars

\* ---- overlapping invocations of send_buy_alert ----------------------------
\* Inside one process the invocations cannot overlap: send_buy_alert has no
\* await and its only caller awaits it.  Two processes of the bot that run on
\* the same bot_data.db each have their own handler; h1 and h2 are one
\* invocation in each, and processed is the table they share.

\* the listener of the process hands a BuyEvent to its handler
HandlerEnter(h) ==
    /\ handler_pc[h] = "idle"
    /\ \E tx \in TxHashes :
          /\ tx \in processed \/ Cardinality(processed) < MaxMarked
          /\ handler_tx' = [handler_tx EXCEPT ![h] = tx]
    /\ handler_pc' = [handler_pc EXCEPT ![h] = "check"]
    /\ handler_insert' = [handler_insert EXCEPT ![h] = "none"]
    /\ UNCHANGED <<listenerVars, botVars, obsVars, classVars, handVars, hbVars,
                   regVars, adminVars, priceVars, detVars,
                   lookVars,
                   filterVars,
                   errVars,
                   seriesVars,
                   callVars,
                   groupVars>>

\* lines 59-60: the SELECT, and the return on a hash that is present
HandlerCheck(h) ==
    /\ handler_pc[h] = "check"
    /\ handler_pc' = [handler_pc EXCEPT ![h] =
                         IF is_transaction_processed(handler_tx[h])
                         THEN "idle" ELSE "mark"]
    /\ UNCHANGED <<listenerVars, botVars, obsVars, classVars, handVars, hbVars,
                   regVars, adminVars, priceVars, detVars, handler_tx,
                   handler_insert,
                   lookVars,
                   filterVars,
                   errVars,
                   seriesVars,
                   callVars,
                   groupVars>>

\* line 63: the INSERT
HandlerMark(h) ==
    /\ handler_pc[h] = "mark"
    /\ LET m == mark_transaction_processed(processed, handler_tx[h])
       IN  /\ processed' = m.table
           /\ handler_insert' = [handler_insert EXCEPT ![h] = m.result]
           /\ handler_pc' = [handler_pc EXCEPT ![h] =
                                IF ProceedsAfterMark(m.result)
                                THEN "dispatch" ELSE "idle"]
    /\ UNCHANGED <<listenerVars, alerts, obsVars, classVars, handVars, hbVars,
                   regVars, adminVars, priceVars, detVars, handler_tx,
                   lookVars,
                   filterVars,
                   errVars,
                   seriesVars,
                   callVars,
                   groupVars>>

\* lines 66-158: the lookups, the message and the send loop
HandlerDispatch(h) ==
    /\ handler_pc[h] = "dispatch"
    /\ \E ti \in TokenInfos, eth \in Lookups, wallet \in Lookups :
          alerts' = [alerts EXCEPT ![handler_tx[h]] =
                        IF AlertSent(ti, eth, wallet) THEN Sat2(@ + 1) ELSE @]
    /\ handler_pc' = [handler_pc EXCEPT ![h] = "idle"]
    /\ UNCHANGED <<listenerVars, processed, obsVars, classVars, handVars,
                   hbVars, regVars, adminVars, priceVars, detVars, handler_tx,
                   handler_insert,
                   lookVars,
                   filterVars,
                   errVars,
                   seriesVars,
                   callVars,
                   groupVars>>

NextDedup ==
    \E h \in Handlers :
        \/ HandlerEnter(h)
        \/ HandlerCheck(h)
        \/ HandlerMark(h)
        \/ HandlerDispatch(h)

SpecDedup == Init /\ [][NextDedup]_vars

\* ---- the receipts of the scan handed to the alert handler ----------------
\* check_block_for_swaps on the router transactions it meets, in chain order,
\* with send_buy_alert as the callback (main.py, line 42).

\* line 166: the receipt of the next router transaction, with its logs
HandOffReceipt ==
    /\ pc \in {"idle", "tx"}
    /\ Cardinality(processed) < MaxMarked
    /\ \E b \in Heights, i \in 1..MaxTxs, n \in 1..MaxLogs :
          /\ LexLess(<<block_number, txi, 0>>, <<b, i, 0>>)
          /\ block_number' = b
          /\ txi' = i
          /\ nlogs' = n
    /\ logi' = 1
    /\ receiptBuys' = 0
    /\ pc' = "log"
    /\ UNCHANGED <<running, pairs, last_block, current_block, ntx, botVars,
                   obsVars, classVars,
                   hbVars, regVars, adminVars, priceVars,
                   laterVars>>

\* lines 169-193 for one log, the callback run to its end: registry test,
\* decode, classify, _process_buy_event, send_buy_alert
HandOffLog ==
    /\ pc = "log"
    /\ \E lo \in LogOutcomes, reached \in CallbackOutcomes :
          IF lo[1] \in pairs /\ lo[2]
          THEN /\ receiptBuys' = receiptBuys + 1
               /\ IF reached
                  THEN /\ lastEmitted' = <<block_number, txi, logi>>
                       /\ emitCount' = EmitStep(emitCount)
                       /\ \E ti \in TokenInfos, eth \in Lookups, wallet \in Lookups :
                             SendBuyAlert(<<block_number, txi>>, ti, eth, wallet)
                  ELSE UNCHANGED <<lastEmitted, emitCount, lastAlert, botVars>>
          ELSE UNCHANGED <<receiptBuys, lastEmitted, emitCount, lastAlert, botVars>>
    /\ IF logi < nlogs
       THEN logi' = logi + 1 /\ pc' = "log"
       ELSE logi' = logi /\ pc' = "tx"
    /\ UNCHANGED <<running, pairs, last_block, current_block, block_number,
                   ntx, txi, nlogs, run, start_height, stop_called, status,
                   fetchCount, classVars,
                   hbVars, regVars, adminVars, priceVars,
                   laterVars>>

NextHandOff ==
    \/ HandOffReceipt
    \/ HandOffLog

SpecHandOff == Init /\ [][NextHandOff]_vars

\* ---- the classifier on one decoded log ------------------------------------

InitClassify ==
    /\ InitListener
    /\ cpc = "input"
    /\ event_args \in EventArgs
    /\ pair_address \in PairAddresses
    /\ is_buy = FALSE
    /\ buy_event = {}
    /\ InitExtOff

\* check_block_for_swaps, line 181
Classify ==
    /\ cpc = "input"
    /\ is_buy' = _is_token_buy(event_args, TokenOf(pair_address))
    /\ cpc' = "classified"
    /\ UNCHANGED <<listenerVars, botVars, obsVars, extVars, event_args, pair_address, buy_event>>

\* check_block_for_swaps, lines 183-190, and _process_buy_event: the event
\* handed to the callback, if one is
ProcessBuy ==
    /\ cpc = "classified"
    /\ \E ti \in TokenInfos :
          buy_event' = IF is_buy /\ CallbackReached(ti)
                       THEN {[token_address |-> TokenOf(pair_address),
                              eth_raw |-> BuyAmounts(event_args).eth_raw,
                              token_raw |-> BuyAmounts(event_args).token_raw]}
                       ELSE {}
    /\ cpc' = "processed"
    /\ UNCHANGED <<listenerVars, botVars, obsVars, extVars, event_args, pair_address, is_buy>>

\* line 169: the next log
NextLog ==
    /\ cpc = "processed"
    /\ event_args' \in EventArgs
    /\ pair_address' \in PairAddresses
    /\ is_buy' = FALSE
    /\ buy_event' = {}
    /\ cpc' = "input"
    /\ UNCHANGED <<listenerVars, botVars, obsVars, extVars>>

NextClassify ==
    \/ Classify
    \/ ProcessBuy
    \/ NextLog

SpecClassify == InitClassify /\ [][NextClassify]_vars

\* ==== properties =============================================================

Scanned(k) == status[k] \in {"complete", "missing", "error"}
InScan == pc \in {"block", "tx", "log"}

\* C1: a block whose scan ended with an exception other than a missing-block
\* error is not passed by last_block: it stays above last_block until a later
\* tick scans it again.
C1_FailedBlockNotPassed ==
    \A k \in Heights : status[k] = "error" => last_block < k

\* C2: when a Buy event arrives whose tx_hash was delivered before (it is
\* already marked), exactly one alert for that tx_hash has been dispatched.
C2_ExactlyOneDispatch ==
    \A a \in lastAlert : ~a.fresh => a.total = 1

\* token in, reference asset out, on the pair's own order
IsSell(args, pair) ==
    IF WethIsToken0(pair)
    THEN /\ args.amount1In > 0 /\ args.amount0Out > 0
         /\ args.amount0In = 0 /\ args.amount1Out = 0
    ELSE /\ args.amount0In > 0 /\ args.amount1Out > 0
         /\ args.amount1In = 0 /\ args.amount0Out = 0
AllZero(args) == \A f \in DOMAIN args : args[f] = 0

\* C3: a swap in which the monitored token enters the pair and the reference
\* asset leaves it (a sell), on either pair order, and an all-zero swap, are
\* not classified as Buy and produce no BuyEvent.
C3_SellIsNotBuy ==
    (IsSell(event_args, pair_address) \/ AllZero(event_args)) =>
        /\ cpc = "classified" => ~is_buy
        /\ cpc = "processed" => buy_event = {}

Side0(args) == args.amount0In > 0 /\ args.amount1Out > 0
Side1(args) == args.amount1In > 0 /\ args.amount0Out > 0

\* C4: the classifier answers Buy iff exactly one of (amount0In>0 and
\* amount1Out>0), (amount1In>0 and amount0Out>0) holds.
C4_BuyIffExactlyOneSide ==
    cpc \in {"classified", "processed"} =>
        (is_buy <=> (Side0(event_args) /\ ~Side1(event_args))
                    \/ (Side1(event_args) /\ ~Side0(event_args)))

\* C5: _is_token_buy answers True iff (amount0In>0 and amount1Out>0) or
\* (amount1In>0 and amount0Out>0), whatever the pair and token, and the step
\* that applies it changes neither its arguments nor any listener or store
\* state.
C5_BuyIffEitherSide ==
    /\ [](cpc \in {"classified", "processed"} =>
            (is_buy <=> (Side0(event_args) \/ Side1(event_args))))
    /\ [][cpc = "input" /\ cpc' = "classified" =>
            UNCHANGED <<listenerVars, botVars, event_args, pair_address>>]_vars
C5_Witness ==
    /\ cpc = "classified"
    /\ is_buy
    /\ ~Side0(event_args)
    /\ pair_address = "pairB"

\* C6: a not-yet-processed Buy event whose token record or wallet record is
\* missing still has its alert dispatched.
C6_EnrichmentNeverDrops ==
    \A a \in lastAlert :
        (a.fresh /\ (~a.token_found \/ ~a.wallet_found)) => a.sent

\* C7: listen_for_swaps ends only after stop() was called.
C7_EndsOnlyAfterStop ==
    pc \in {"done", "crashed"} => stop_called

\* C8: a block whose fetch raised the missing-block error was fetched once and
\* never again; the blocks after it up to h_now are scanned in the same tick,
\* and at the end of the tick last_block has reached h_now.
C8_MissingBlockSkipped ==
    /\ \A k \in Heights : status[k] = "missing" =>
          /\ fetchCount[k] = 1
          /\ IF InScan /\ last_block < k
             THEN k < block_number /\ block_number <= current_block
             ELSE /\ k <= last_block
                  /\ \A j \in (k + 1)..last_block : Scanned(j)
    /\ pc = "sleep" => last_block >= current_block
C8_Witness ==
    /\ pc = "sleep"
    /\ \E k \in Heights :
          /\ status[k] = "missing"
          /\ k < last_block
          /\ status[k + 1] = "complete"
          /\ last_block = current_block

\* C9: every BuyEvent handed to the callback has a (block, transaction index,
\* log index) strictly above that of the one handed before it.
C9_EmittedAscending ==
    [][emitCount' # emitCount => LexLess(lastEmitted, lastEmitted')]_vars
C9_Witness ==
    /\ emitCount >= 2
    /\ lastEmitted[3] = 2

\* C10: no block at or below the height read at the start is fetched, and the
\* first block fetched is the one right above it.
C10_NoBackfill ==
    /\ \A b \in Heights : fetchCount[b] > 0 => b > start_height
    /\ (\E b \in Heights : fetchCount[b] > 0) => fetchCount[start_height + 1] > 0
C10_Witness ==
    /\ start_height >= 1
    /\ start_height + 1 \in Heights
    /\ fetchCount[start_height + 1] = 1
    /\ fetchCount[start_height] = 0

C12_EveryBuyLogDispatched ==
    (pc = "tx" /\ receiptBuys >= 2) =>
        alerts[<<block_number, txi>>] = Sat2(receiptBuys)

\* C13: the callback is never invoked for a tx_hash that is already marked
\* processed: the scanner has checked the dedup store before the hand-off.
C13_CallbackOnlyForUnmarked ==
    \A a \in lastAlert : a.fresh

\* the time the next periodic heartbeat is measured from: the previous one,
\* or the construction of the listener when there was none
HbReference == IF periodicAt >= 0 THEN periodicAt ELSE 0

\* C14: a tick whose height read succeeds emits a heartbeat that carries no
\* Buy payload iff at least heartbeat_interval has elapsed since the previous
\* periodic heartbeat; two periodic heartbeats are at least one interval
\* apart; the step that emits a heartbeat leaves last_block alone.
C14_HeartbeatPeriodic ==
    /\ [][(pc = "loop" /\ pc' = "range") =>
            IF now - HbReference >= heartbeat_interval
            THEN /\ periodicAt' = now
                 /\ \E e \in last_hb_event' :
                       e.timestamp = now /\ "tx_hash" \notin e.keys
            ELSE periodicAt' = periodicAt]_vars
    /\ [](prevPeriodicAt >= 0 => periodicAt - prevPeriodicAt >= heartbeat_interval)
    /\ [][periodicAt' # periodicAt => last_block' = last_block]_vars
C14_Witness ==
    /\ prevPeriodicAt >= 0
    /\ periodicAt - prevPeriodicAt = heartbeat_interval
    /\ now = periodicAt
    /\ last_block > start_height
    /\ pc = "range"

\* C15: a heartbeat delivered to the handler ends without an error.
C15_HeartbeatHandled ==
    hb_handled # "error"

\* C16: when initialize_pairs has returned, every entry of the list has been
\* read, and the registry holds the pair of a token iff a lookup of that token
\* answered a non-zero pair and its name, symbol and decimals; a token whose
\* lookup failed in any way is left out, and the tokens before and after it
\* are registered all the same.
C16_RegistryIffLookupOk ==
    reg_pc = "ready" =>
        /\ Len(reg_arg) = reg_n
        /\ \A t \in Tokens :
              PairFor(t) \in pairs <=>
                  \E i \in 1..Len(token_addresses) :
                      token_addresses[i] = t /\ lookups[i] = "ok"
C16_Witness ==
    /\ reg_pc = "ready"
    /\ Len(token_addresses) = 3
    /\ lookups = <<"ok", "raise", "ok">>
    /\ Cardinality(pairs) = 2
    /\ PairFor(token_addresses[2]) \notin pairs

\* C17: when update_monitored_tokens(S) has returned, every pair of the
\* registry is the pair of a lowercased token of S; no pair of a token
\* outside S is left from before.
C17_NoStalePairs ==
    (reg_pc = "ready" /\ reg_caller = "update") =>
        pairs \subseteq {PairFor(Lower(a)) : a \in Range(reg_arg) \ {""}}
C17_Witness ==
    /\ reg_pc = "ready"
    /\ reg_caller = "update"
    /\ Range(reg_arg) = {"TOKENA", ""}
    /\ pairs = {"pairA"}

\* the tokens of the table, by their lowercased identity
MonitoredLower == {Lower(a) : a \in monitored_tokens}

\* C18: a token that an admin command has added to the table eventually has
\* its pair in the scanner's registry; for a token that an admin command has
\* removed from the table the scanner eventually emits no more Buy events.
C18_AdminReachesScanner ==
    \A t \in Tokens :
        /\ (t \in MonitoredLower) ~> (PairFor(t) \in pairs)
        /\ (t \notin MonitoredLower) ~> [](emitted_for # t)

\* C19: the price table holds at most one row per (token_address, timestamp),
\* and after two store_token_price calls for one token at one timestamp it
\* holds exactly one row of that key, with the price and the volume of the
\* later call.
C19_OneRowLatestWrite ==
    /\ \A r1, r2 \in token_price_history : SameKey(r1, r2) => r1 = r2
    /\ same_key_writes >= 2 =>
            {r \in token_price_history : SameKey(r, last_store.row)}
                = {last_store.row}

\* the series the table holds for a token, ascending in time
TableSeries(token) ==
    SelectHistory(token_price_history, token, price_now, PUMP_DUMP_TIME_WINDOW)

\* prices (1.0, 2.0, 0.5) and volumes (100, 500, 50) in the units of the model
ExampleSeries ==
    <<PriceRow("tokenA", 1, 2, 2), PriceRow("tokenA", 2, 4, 10),
      PriceRow("tokenA", 3, 1, 1)>>

\* C20: with fewer than 2 points in the series detect_pump_dump returns no
\* pattern; for a series whose peak (the global maximum price) has points
\* before and after it, a positive minimum before it and a positive mean
\* volume before it, it returns a pump_dump record iff
\* (max - min_before) / min_before * 100 >= 20 and
\* (max - min_after) / max * 100 >= 20 and
\* (max_volume - mean_before) / mean_before * 100 >= 50; for the series
\* (1.0, 2.0, 0.5) / (100, 500, 50) it does, with pump_percent 100 and
\* dump_percent 75.
C20_PumpDumpIff ==
    detect_token # "none" =>
        LET series == TableSeries(detect_token)
            n      == Len(series)
            price(i)  == series[i].price_usd
            volume(i) == series[i].volume_usd
            max    == CHOOSE x \in {price(i) : i \in 1..n} :
                          \A i \in 1..n : price(i) <= x
            peak   == CHOOSE i \in 1..n :
                          price(i) = max /\ \A j \in 1..(i - 1) : price(j) < max
            min_before == CHOOSE x \in {price(i) : i \in 1..(peak - 1)} :
                              \A i \in 1..(peak - 1) : x <= price(i)
            min_after  == CHOOSE x \in {price(i) : i \in (peak + 1)..n} :
                              \A i \in (peak + 1)..n : x <= price(i)
            max_volume == CHOOSE x \in {volume(i) : i \in 1..n} :
                              \A i \in 1..n : volume(i) <= x
            sum_before == SumTo([i \in 1..n |-> volume(i)], peak - 1)
        IN  IF n < 2
            THEN detected = NoPattern
            ELSE /\ (peak > 1 /\ peak < n /\ min_before > 0 /\ sum_before > 0) =>
                        (detected.pattern_type = "pump_dump" <=>
                            /\ (max - min_before) * 100 >= 20 * min_before
                            /\ (max - min_after) * 100 >= 20 * max
                            /\ (max_volume * (peak - 1) - sum_before) * 100
                                    >= 50 * sum_before)
                 /\ series = ExampleSeries =>
                        /\ detected.pattern_type = "pump_dump"
                        /\ detected.pump_percent = 100
                        /\ detected.dump_percent = 75

\* C21: with at least 5 Buy events inside the window, all of one wallet, and
\* a stored series of at least two prices, detect_accumulation returns an
\* accumulation record with wallet_count >= 1 when the coefficient of
\* variation of the prices is below 15%, and no pattern when it is 15% or
\* more.
C21_AccumulationFires ==
    (detect_call = "detect_accumulation" /\ detect_token = "tokenA") =>
        LET series == SelectHistory(token_price_history, "tokenA", price_now,
                                    ACCUMULATION_TIME_WINDOW)
            n      == Len(series)
            prices == [i \in 1..n |-> series[i].price_usd]
        IN  (/\ Len(window_buys) >= 5
             /\ \A i, j \in 1..Len(window_buys) :
                    window_buys[i].buyer = window_buys[j].buyer
             /\ n >= 2) =>
                IF VolatilityBelow(prices, n, 15)
                THEN /\ accumulated.pattern_type = "accumulation"
                     /\ accumulated.wallet_count >= 1
                ELSE accumulated = NoAccumulation

\* C22: for every log classified as Buy, _process_buy_event has handed
\* exactly one BuyEvent to the callback, whatever the scanner's market-data
\* lookup returned, in the listener as main.py builds it.
C22_CallbackForEveryBuy ==
    (cpc = "processed" /\ is_buy) => Cardinality(buy_event) = 1

\* C23: of two invocations of the handler for one tx_hash that overlap, at
\* most one goes on to dispatch the alert, and an invocation whose INSERT
\* failed on a tx_hash already present does not go on to dispatch.
C23_AtomicCheckThenInsert ==
    /\ \A g, h \in Handlers :
          (g # h /\ handler_pc[g] = "dispatch" /\ handler_pc[h] = "dispatch")
              => handler_tx[g] # handler_tx[h]
    /\ \A h \in Handlers :
          handler_insert[h] = "False" => handler_pc[h] # "dispatch"

\* C24: a pair lookup of the scan that fell inside a run of
\* update_monitored_tokens found either the registry as it was before the
\* update or the registry as the update left it.
C24_OldOrNewRegistry ==
    (seen_during /\ reg_pc = "ready") => seen_pairs \in {old_pairs, pairs}

\* C25: a BuyEvent is handed to the callback only for a log of a transaction
\* sent to the router (not to another address, not a contract creation) whose
\* emitting address is a pair of the registry, and its token_address is the
\* token of that pair.
C25_OnlyRouterAndRegistered ==
    \A e \in emitted :
        /\ tx_to \in {"ROUTER", "router"}
        /\ log_address \in pairs
        /\ e.token_address = TokenOf(log_address)
C25_Witness ==
    /\ emitted # {}
    /\ tx_to = "router"
    /\ pairs = {"pairB"}
    /\ log_address = "pairB"
    /\ logs_left = 1

\* C26: a log of a registered pair that does not decode, or a Buy whose
\* processing raises, is dropped and the scan goes on with the next log of the
\* receipt, else the next transaction of the block, else the block is complete
\* and the next block of the tick follows (or the tick ends with last_block
\* advanced).
C26_LogErrorDropped ==
    [][(pc = "log" /\ log_result' \in {"decode_error", "raised"}) =>
         IF logi < nlogs
         THEN /\ pc' = "log" /\ logi' = logi + 1
              /\ UNCHANGED <<txi, block_number, status>>
         ELSE IF txi < ntx
         THEN /\ pc' = "tx" /\ txi' = txi + 1
              /\ UNCHANGED <<block_number, status>>
         ELSE /\ status'[block_number] = "complete"
              /\ IF block_number < current_block
                 THEN pc' = "block" /\ block_number' = block_number + 1
                 ELSE pc' = "sleep" /\ last_block' = current_block]_vars
C26_Witness ==
    /\ log_result = "decode_error"
    /\ pc = "log"
    /\ logi = 2
    /\ txi < ntx
    /\ block_number < current_block

\* C27: in detect_pump_dump a ratio whose denominator is 0 (the minimum before
\* the peak, the peak, the mean volume before the peak) is taken as 0, and no
\* pattern is reported for that series.
C27_ZeroDenominator ==
    (detect_call = "detect_pump_dump" /\ Len(series_rows) >= 2) =>
        /\ ratios.min_price_before = 0 =>
              ratios.pump_percent = 0 /\ detected = NoPattern
        /\ ratios.max_price = 0 =>
              ratios.dump_percent = 0 /\ detected = NoPattern
        /\ ratios.sum_before = 0 =>
              ratios.volume_increase = 0 /\ detected = NoPattern
C27_Witness ==
    /\ detect_call = "detect_pump_dump"
    /\ Len(series_rows) = 3
    /\ series_rows[1].price_usd = 0
    /\ series_rows[2].price_usd = 2
    /\ series_rows[3].price_usd = 1
    /\ series_rows[1].volume_usd = 1
    /\ series_rows[2].volume_usd = 2
    /\ ratios.pump_percent = 0
    /\ ratios.dump_percent = 50
    /\ ratios.volume_increase = 100
    /\ detected = NoPattern

\* C28: detect_patterns returns at most one pump_dump record and at most one
\* accumulation record, the pump_dump record first, and returns both for a
\* token whose price rows meet the pump-and-dump thresholds while one wallet
\* has ACCUMULATION_THRESHOLD buys in the window and the prices vary by less
\* than 15%.
C28_BothPatterns ==
    (detect_call = "detect_patterns" /\ detect_token = "tokenA") =>
        LET rows == SelectHistory(token_price_history, "tokenA", price_now,
                                  PUMP_DUMP_TIME_WINDOW)
            n == Len(rows)
            prices == [i \in 1..n |-> rows[i].price_usd]
            types == [i \in 1..Len(patterns) |-> patterns[i].pattern_type]
        IN  /\ types \in {<<>>, <<"pump_dump">>, <<"accumulation">>,
                          <<"pump_dump", "accumulation">>}
            /\ ( /\ n >= 2
                 /\ PumpDumpRatios(rows).is_pump_dump
                 /\ Len(window_buys) >= ACCUMULATION_THRESHOLD
                 /\ \A i \in 1..Len(window_buys) :
                        window_buys[i].buyer = window_buys[1].buyer
                 /\ VolatilityBelow(prices, n, 15) )
               => types = <<"pump_dump", "accumulation">>

\* C29: a monitored token is identified by its lowercased address, so the
\* table never holds the same address in two spellings (and a removal under
\* either spelling leaves none of them).
C29_OneRowPerAddress ==
    \A a \in monitored_tokens, b \in monitored_tokens :
        Lower(a) = Lower(b) => a = b

\* C30: a call of the market-data provider that does not return does not hold
\* the scan: the call is time-boxed, the remaining blocks of the tick are
\* scanned and the loop comes to its sleep, from where the next tick (and the
\* next heartbeat test) follows.
C30_CallDoesNotStall == (outbound = "pending") ~> (pc = "sleep")

\* C31: a stop() issued at any moment takes effect, also one issued before
\* listen_for_swaps has set its flag: once stop() has been called and
\* listen_for_swaps has been started, listen_for_swaps eventually returns.
C31_StopBeforeStart ==
    (stop_called /\ pc # "idle") ~> (pc \in {"done", "crashed"})

\* C32: last_block never decreases and no height is fetched twice; a tick whose
\* height read is not above last_block scans nothing and leaves last_block,
\* and a tick that fails with an exception leaves last_block.
C32_MonotoneNoRescan ==
    /\ [](\A k \in Heights : fetchCount[k] <= 1)
    /\ [][pc # "idle" => last_block' >= last_block]_vars
    /\ [][(pc = "loop" /\ pc' \notin {"loop", "done", "backoff"}
             /\ current_block' <= last_block) =>
            /\ pc' = "sleep"
            /\ UNCHANGED <<last_block, fetchCount, status>>]_vars
    /\ [][pc' = "backoff" => last_block' = last_block]_vars
C32_Witness ==
    /\ pc = "sleep"
    /\ last_block = 2
    /\ current_block = 1
    /\ fetchCount[2] = 1
    /\ start_height = 1

====
